---- MODULE Spec2Model ----
(***************************************************************************)
(* The refinement pipeline of src/ark_app.py as state machines:            *)
(*   - enforce_non_preemptive_finish_started (the Interval Consolidator),  *)
(*   - batch_like_tasks (the Stage Batcher),                               *)
(*   - inject_carryovers_into_cfg (Carryover propagation) over the         *)
(*     task_carryovers table (the Carryover Ledger).                       *)
(*                                                                         *)
(* Time of day is counted in whole hours (08:00 is 8); a calendar date is  *)
(* a day number and its weekday is the day number modulo 7.  Text values   *)
(* (customer, stage) are sequences of one-character strings so that        *)
(* strip(), lower() and the regular expressions of _stage_base are         *)
(* computed, not assumed.  Every timestamp in the model is a whole hour,   *)
(* so strftime("%Y-%m-%d %H:%M") and pd.Timedelta(hours=h) lose nothing.   *)
(***************************************************************************)
EXTENDS Integers, Sequences, FiniteSets, TLC

\* ------------------------------------------------------------------ bounds
\* Task timestamps of the modelled day range over DayStart..DayStart+MaxTime.
MaxTime == 4
\* Rows of a schedule without double-booking (one employee, one day).
MaxRows == 4
\* Rows and hours of a frame with an Item column.
MaxItemRows == 3
MaxItemTime == 3
\* Rows and hours of a frame whose rows may overlap each other.
MaxOverlapRows == 3
MaxOverlapTime == 2
\* Rows and hours of a frame handed to the Batcher.
MaxBatchRows == 3
MaxBatchTime == 2
\* The Carryover Ledger: entries, hours remaining of an entry, last date (day
\* number) and the propagation calls followed.
MaxEntries == 2
MaxHours == 5
MaxDay == 2
MaxCalls == 2
\* Calls of run_scheduler_cached and ledger rows written while the app runs.
MaxRuns == 4
MaxWrites == 1
\* Rows and hours of the base schedule taken through both refinement stages.
MaxPipeRows == 3
MaxPipeTime == 3
\* Rows and hours of the days without double-booking given to the Batcher.
MaxBookedRows == 4
MaxBookedTime == 4
\* Digits of the numeric suffix of a stage name.
MaxSuffix == 1
\* Rows submitted with the daily updates form, all submissions together.
MaxFeedback == 2
\* Changes the admin makes to the tables a run reads.
MaxAdmin == 1
\* Entries of the log of one scenario of the portal, the changes of the admin
\* counted in.
MaxLog == 5

\* ------------------------------------------------------- program constants
\* first.normalize() + pd.Timedelta(hours=8): start of the fallback segment.
FallbackStart == 8
\* first.normalize() + pd.Timedelta(hours=16): end of the fallback segment.
FallbackEnd == 16

\* Earliest task timestamp enumerated (the default shift start "08:00").
DayStart == FallbackStart

VARIABLES
    \* ---- enforce_non_preemptive_finish_started
    c_pc,        \* position in the function
    c_df,        \* df: the input rows
    c_shifts,    \* cfg["employees"][..]["shifts"] of the day's weekday: <<start, end>> pairs
    c_targets,   \* cfg["priorities"]["targets"]
    c_segments,  \* segments of the (employee, day) group
    c_seg,       \* index of the segment being processed
    c_pending,   \* pending: clipped rows of the segment, sorted
    c_cursor,    \* cursor
    c_used,      \* used_indices
    c_i,         \* i
    c_out_rows,  \* out_rows
    c_out,       \* the returned frame
    c_hist,      \* one record per loop iteration that emitted a row
    \* ---- batch_like_tasks
    b_pc,        \* position in the function
    b_df,        \* df: the input rows (gday once sorted)
    b_targets,   \* cfg["priorities"]["targets"]
    b_reordered, \* reordered: gday grouped by stage base
    b_cursor,    \* cursor
    b_k,         \* index of the row of reordered being processed
    b_out_rows,  \* out_rows
    b_out,       \* the returned frame
    b_hist,      \* one record per loop iteration
    \* ---- inject_carryovers_into_cfg and the tables it reads
    p_ledger,    \* task_carryovers: the row with id k is p_ledger[k]
    p_shifts,    \* employee_shifts of employee "ann": weekday -> rows in table order
    p_days_off,  \* employee_days_off of employee "ann": the set of off dates
    p_employees, \* employees: the names in the table
    p_window,    \* global_settings window_start, window_end (dates)
    p_calls,     \* propagation calls made
    p_hist,      \* one record per propagation call
    p_call,      \* the call of inject_carryovers_into_cfg in progress
    p_admin,     \* changes the admin has made to the tables
    \* ---- run_scheduler_cached and st.cache_data
    r_cache,     \* the cache entry of run_scheduler_cached
    r_log,       \* one record per call of run_scheduler_cached and per ledger write
    r_feedback,  \* task_feedback: the rows in insertion order
    r_form,      \* "Submit daily updates": the rows of the editor not yet inserted
    r_caller,    \* the caller the body of run_scheduler_cached is running for
    e_pc,        \* employee_app: the statement the page run is at
    emp_name,    \* employee_app: emp_name (line 715)
    \* ---- the post-processing of run_scheduler_cached (lines 1380-1392)
    s_pc,        \* position in the function
    s_columns,   \* the columns df carries
    s_cfg,       \* cfg: the employee's shifts of the weekday, whether the date is
                 \* among the employee's days_off, and the deadline targets
    s_df,        \* df
    s_log        \* one record per stage: what it was given and what df became

consVars == <<c_pc, c_df, c_shifts, c_targets, c_segments, c_seg, c_pending,
              c_cursor, c_used, c_i, c_out_rows, c_out, c_hist>>
batchVars == <<b_pc, b_df, b_targets, b_reordered, b_cursor, b_k, b_out_rows,
               b_out, b_hist>>

propVars == <<p_ledger, p_shifts, p_days_off, p_employees, p_window, p_calls, p_hist,
              p_call, p_admin>>

runVars == <<r_cache, r_log, r_feedback, r_form, r_caller, e_pc, emp_name>>

pipeVars == <<s_pc, s_columns, s_cfg, s_df, s_log>>

vars == <<consVars, batchVars, propVars, runVars, pipeVars>>

\* A function that is not running: its variables hold nothing.
ConsIdle ==
    /\ c_pc = "idle" /\ c_df = <<>> /\ c_shifts = <<>> /\ c_targets = {}
    /\ c_segments = <<>> /\ c_seg = 0 /\ c_pending = <<>> /\ c_cursor = 0
    /\ c_used = {} /\ c_i = 0 /\ c_out_rows = <<>> /\ c_out = <<>> /\ c_hist = <<>>
BatchIdle ==
    /\ b_pc = "idle" /\ b_df = <<>> /\ b_targets = {} /\ b_reordered = <<>>
    /\ b_cursor = 0 /\ b_k = 0 /\ b_out_rows = <<>> /\ b_out = <<>> /\ b_hist = <<>>
PropIdle ==
    /\ p_ledger = <<>> /\ p_shifts = <<>> /\ p_days_off = {} /\ p_employees = {}
    /\ p_window = <<0, 0>>
    /\ p_calls = 0 /\ p_hist = <<>>
    /\ p_call = [pc |-> "idle"] /\ p_admin = 0
RunIdle ==
    /\ r_cache = [live |-> FALSE, value |-> <<>>] /\ r_log = <<>>
    /\ r_feedback = <<>> /\ r_form = <<>>
    /\ r_caller = "none" /\ e_pc = "idle" /\ emp_name = "None"
PipeIdle ==
    /\ s_pc = "idle" /\ s_columns = {} /\ s_cfg = <<>> /\ s_df = <<>> /\ s_log = <<>>

\* ------------------------------------------------------------------- text
Max(a, b) == IF a >= b THEN a ELSE b
Min(a, b) == IF a <= b THEN a ELSE b

UpperLetters == <<"A","B","C","D","E","F","G","H","I","J","K","L","M",
                  "N","O","P","Q","R","S","T","U","V","W","X","Y","Z">>
LowerLetters == <<"a","b","c","d","e","f","g","h","i","j","k","l","m",
                  "n","o","p","q","r","s","t","u","v","w","x","y","z">>
Digits == {"0","1","2","3","4","5","6","7","8","9"}

\* str.lower() on one character
LowerChar(c) ==
    IF \E k \in 1..26 : UpperLetters[k] = c
    THEN LowerLetters[CHOOSE k \in 1..26 : UpperLetters[k] = c]
    ELSE c

\* str.lower()
Lower(s) == [k \in 1..Len(s) |-> LowerChar(s[k])]

\* str.strip(): leading and trailing blanks removed
RECURSIVE LStrip(_)
LStrip(s) == IF s # <<>> /\ Head(s) = " " THEN LStrip(Tail(s)) ELSE s
RECURSIVE RStrip(_)
RStrip(s) ==
    IF s # <<>> /\ s[Len(s)] = " " THEN RStrip(SubSeq(s, 1, Len(s) - 1)) ELSE s
Strip(s) == RStrip(LStrip(s))

\* str(x).strip().lower(), the normal form of a deadline key component
NormName(s) == Lower(Strip(s))

\* ------------------------------------------------------ "HH:MM" shift times
\* A shift's start and end are TEXT columns of employee_shifts, typed by the
\* administrator into a free text field; they are ordered as text and parsed
\* with split(":") and int().  All the times of the model are whole hours.
DigitChars == <<"0","1","2","3","4","5","6","7","8","9">>
DigitVal(c) == (CHOOSE k \in 1..10 : DigitChars[k] = c) - 1
\* the code point of a character of a time text: "0".."9" are 48..57, ":" is 58
CharCode(c) == IF c \in Digits THEN 48 + DigitVal(c) ELSE 58

\* str < str: the order of sorted() and of SQLite's ORDER BY on a TEXT column
RECURSIVE TextLT(_, _)
TextLT(a, b) ==
    IF b = <<>> THEN FALSE
    ELSE IF a = <<>> THEN TRUE
    ELSE IF CharCode(Head(a)) # CharCode(Head(b)) THEN CharCode(Head(a)) < CharCode(Head(b))
    ELSE TextLT(Tail(a), Tail(b))

\* str.split(":")
RECURSIVE SplitColon(_)
SplitColon(s) ==
    IF \A k \in DOMAIN s : s[k] # ":" THEN <<s>>
    ELSE LET k == CHOOSE j \in DOMAIN s : s[j] = ":" /\ \A m \in 1..(j - 1) : s[m] # ":"
         IN  <<SubSeq(s, 1, k - 1)>> \o SplitColon(SubSeq(s, k + 1, Len(s)))

\* int(x) succeeds on a non-empty run of digits
IsInt(x) == x # <<>> /\ \A k \in DOMAIN x : x[k] \in Digits
RECURSIVE ParseInt(_)
ParseInt(x) == IF x = <<>> THEN 0 ELSE 10 * ParseInt(SubSeq(x, 1, Len(x) - 1)) + DigitVal(x[Len(x)])

\* "08:00" and "8:00" for hour h
Padded(h) == <<DigitChars[(h \div 10) + 1], DigitChars[(h % 10) + 1], ":", "0", "0">>
Unpadded(h) == IF h >= 10 THEN Padded(h) ELSE <<DigitChars[h + 1], ":", "0", "0">>

\* ------------------------------------------------------------------- rows
\* pd.to_datetime(.., errors="coerce"): a timestamp that is missing or cannot be
\* read is NaT; Hours computed from it is NaN, written NaT as well.
NaT == 0 - 1
HasTimes(r) == r.s # NaT /\ r.e # NaT

\* The (start, end) sort key of sort_values([c_sta, c_end]) and of sorted(pending);
\* NaT comes last.
RowLE(a, b) ==
    LET lt(x, y) == x # NaT /\ (y = NaT \/ x < y)
    IN  lt(a.s, b.s) \/ (a.s = b.s /\ (a.e = b.e \/ lt(a.e, b.e)))

\* Stable insertion of r: behind every row whose key is <= r's key.
RECURSIVE InsertRow(_, _)
InsertRow(r, sorted) ==
    IF sorted = <<>> THEN <<r>>
    ELSE IF RowLE(Head(sorted), r) THEN <<Head(sorted)>> \o InsertRow(r, Tail(sorted))
    ELSE <<r>> \o sorted

\* sort_values([c_sta, c_end]) / sorted(pending, key=(start, end)): a stable sort.
RECURSIVE SortRows(_)
SortRows(rows) ==
    IF rows = <<>> THEN <<>>
    ELSE InsertRow(rows[Len(rows)], SortRows(SubSeq(rows, 1, Len(rows) - 1)))

\* row[c_end] - row[c_sta], in hours
Duration(r) == IF HasTimes(r) THEN r.e - r.s ELSE NaT

\* groupby("__day__"): the rows of the day; a row whose start is NaT has no day
\* and is in no group.
DayRows(df) == SelectSeq(df, LAMBDA r : r.s # NaT)

RECURSIVE SumHours(_)
SumHours(rows) == IF rows = <<>> THEN 0 ELSE Head(rows).hours + SumHours(Tail(rows))

\* The item of the rows of a frame that has no Item / Qty Index / Index column.
NoItem == <<>>

\* task_key(row): same piece, same stage; the item is part of the key when the
\* frame has an Item column (lines 980-982)
task_key(r) ==
    IF r.item = NoItem THEN <<r.cust, r.job, r.service, r.stage>>
    ELSE <<r.cust, r.job, r.service, r.stage, r.item>>

\* the (customer, stage) key under which a deadline is looked up
DeadlineKey(r) == <<NormName(r.cust), NormName(r.stage)>>

\* dl_map built from cfg.priorities.targets: the earliest "by" per normalized key
TargetKeys(targets) == {<<NormName(t.customer), NormName(t.stage)>> : t \in targets}
_build_deadline_map(targets) ==
    [key \in TargetKeys(targets) |->
        LET bys == {t.by : t \in {u \in targets :
                        <<NormName(u.customer), NormName(u.stage)>> = key}}
        IN  CHOOSE b \in bys : \A c \in bys : b <= c]

HasDeadline(dl_map, key) == key \in DOMAIN dl_map

\* --------------------------------------------------------- shift segments
\* sorted(emp_shift[name][d]): the (start, end) pairs of strings in ascending
\* order of the tuples, compared as text
ShiftLE(a, b) == TextLT(a[1], b[1]) \/ (a[1] = b[1] /\ ~TextLT(b[2], a[2]))
RECURSIVE InsertShift(_, _)
InsertShift(x, sorted) ==
    IF sorted = <<>> THEN <<x>>
    ELSE IF ShiftLE(Head(sorted), x) THEN <<Head(sorted)>> \o InsertShift(x, Tail(sorted))
    ELSE <<x>> \o sorted
RECURSIVE SortShifts(_)
SortShifts(sh) ==
    IF sh = <<>> THEN <<>>
    ELSE InsertShift(sh[Len(sh)], SortShifts(SubSeq(sh, 1, Len(sh) - 1)))

\* Lines 966-970: "s_h, s_m = [int(x) for x in hhmm.split(":")]" for both texts;
\* any failure makes the pair 08:00-16:00.
TwoInts(hhmm) ==
    /\ Len(SplitColon(hhmm)) = 2
    /\ \A k \in 1..2 : IsInt(SplitColon(hhmm)[k])
SegmentOfShift(x) ==
    IF TwoInts(x[1]) /\ TwoInts(x[2])
    THEN <<ParseInt(SplitColon(x[1])[1]), ParseInt(SplitColon(x[2])[1])>>
    ELSE <<FallbackStart, FallbackEnd>>

\* day_segments_for(emp, day): the weekday's shifts as timestamps of the day,
\* those with start >= end left out
day_segments_for(shifts) ==
    LET sorted == SortShifts(shifts)
    IN  SelectSeq([k \in DOMAIN sorted |-> SegmentOfShift(sorted[k])],
                  LAMBDA x : x[1] < x[2])

\* The fallback when the weekday has no segment: one segment 08:00-16:00 of the
\* day, provided the day's rows have first < last.
FallbackSegments(day_df) ==
    LET ends  == {day_df[k].e : k \in DOMAIN day_df} \ {NaT}
        first == CHOOSE a \in {day_df[k].s : k \in DOMAIN day_df} :
                     \A k \in DOMAIN day_df : a <= day_df[k].s
        last  == CHOOSE b \in ends : \A x \in ends : b >= x
    IN  IF ends # {} /\ first < last THEN << <<FallbackStart, FallbackEnd>> >> ELSE <<>>

SegmentsOfDay(shifts, day_df) ==
    IF day_segments_for(shifts) # <<>> THEN day_segments_for(shifts)
    ELSE FallbackSegments(day_df)

\* --------------------------------------------------- the Consolidator loop
\* The clamp keeping the Hours of the unclamped row.
ClampRowKeepingHours(r, seg) ==
    [r EXCEPT !.s = Max(r.s, seg[1]), !.e = Min(r.e, seg[2])]

\* A row clamped to the segment; Hours recomputed from the clamped bounds.
ClampRow(r, seg) ==
    [r EXCEPT !.s = Max(r.s, seg[1]), !.e = Min(r.e, seg[2]),
              !.hours = Min(r.e, seg[2]) - Max(r.s, seg[1])]

\* pending: the rows with both timestamps overlapping the segment, clamped,
\* those left with a positive length, sorted by the clamped (start, end)
PendingOf(day_df, seg) ==
    LET overlapping == SelectSeq(day_df, LAMBDA r : /\ HasTimes(r)
                                                    /\ r.e > seg[1] /\ r.s < seg[2])
        clamped     == [k \in DOMAIN overlapping |-> ClampRow(overlapping[k], seg)]
    IN  SortRows(SelectSeq(clamped, LAMBDA r : r.e > r.s))

\* start0 = max(cursor, r0[c_sta])
start0(cursor, r0) == Max(cursor, r0.s)

\* same_idxs: later unconsumed fragments with the head's task key
same_idxs(pending, used, i) ==
    {j \in (i + 1)..Len(pending) :
        j \notin used /\ task_key(pending[j]) = task_key(pending[i])}

RECURSIVE SumAt(_, _)
SumAt(pending, idxs) ==
    IF idxs = {} THEN 0
    ELSE LET j == CHOOSE x \in idxs : TRUE
         IN  pending[j].hours + SumAt(pending, idxs \ {j})

\* total_h = dur0_h + the siblings' hours
total_h(pending, used, i) == pending[i].hours + SumAt(pending, same_idxs(pending, used, i))

\* proposed_end = start0 + pd.Timedelta(hours=total_h)
proposed_end(pending, used, i, cursor) ==
    start0(cursor, pending[i]) + total_h(pending, used, i)

\* the deadline-only override: some other pending, unconsumed row that starts
\* before the proposed end has a deadline earlier than the proposed end
deadline_conflict(pending, used, i, cursor, dl_map) ==
    /\ DOMAIN dl_map # {}
    /\ \E k \in (i + 1)..Len(pending) :
          /\ k \notin used
          /\ k \notin same_idxs(pending, used, i)
          /\ pending[k].s < proposed_end(pending, used, i, cursor)
          /\ HasDeadline(dl_map, DeadlineKey(pending[k]))
          /\ dl_map[DeadlineKey(pending[k])] < proposed_end(pending, used, i, cursor)

\* The merge rejected only for crossing the segment end.
violates_deadlineAtSegmentEnd(pending, used, i, cursor, dl_map, seg) ==
    proposed_end(pending, used, i, cursor) > seg[2]

\* violates_deadline after line 1074: a deadline conflict, or the merge would
\* cross the segment end
violates_deadline(pending, used, i, cursor, dl_map, seg) ==
    \/ deadline_conflict(pending, used, i, cursor, dl_map)
    \/ proposed_end(pending, used, i, cursor) > seg[2]

\* RejectedRow without the clamp of its end to the segment end.
RejectedRowUnclamped(r0, cursor, seg) ==
    LET st == start0(cursor, r0)
    IN  [r0 EXCEPT !.s = st, !.e = st + r0.hours]

\* RejectedRow that leaves the head where the base schedule had it.
RejectedRowInPlace(r0, cursor, seg) == r0

\* the row emitted when the merge is rejected: r0 alone, clamped to the segment
RejectedRow(r0, cursor, seg) ==
    LET st == start0(cursor, r0)
        en == Min(st + r0.hours, seg[2])
    IN  [r0 EXCEPT !.s = st, !.e = en, !.hours = en - st]

\* the row emitted when the merge is accepted: r0 with the combined duration
MergedRow(pending, used, i, cursor, seg) ==
    LET st == start0(cursor, pending[i])
        en == Min(proposed_end(pending, used, i, cursor), seg[2])
    IN  [pending[i] EXCEPT !.s = st, !.e = en, !.hours = en - st]

\* ----------------------------------------------------------------- inputs
EmpAnn == "ann"
\* Customers "Al", "Bo" and "Cy"; a target may spell the customer " bo" and the stage "p2 ".
Al == <<"A", "l">>
Bo == <<"B", "o">>
Cy == <<"C", "y">>
BoAsTarget == <<" ", "b", "o">>
Chair == <<"c">>
Refinish == <<"r">>
P2 == <<"P", "2">>
P2AsTarget == <<"p", "2", " ">>

Times == DayStart..(DayStart + MaxTime)

\* A row of the frame: one task interval of employee "ann".
RowChoices(customers, stages, times) ==
    {[emp |-> EmpAnn, cust |-> c, job |-> Chair, service |-> Refinish, item |-> NoItem,
      stage |-> st, s |-> iv[1], e |-> iv[2], hours |-> iv[2] - iv[1]] :
        c \in customers, st \in stages,
        iv \in {x \in times \X times : x[1] < x[2]}}

\* Rows labelled 1..n, in frame order.
Labelled(f) ==
    [k \in DOMAIN f |-> [id |-> k, emp |-> f[k].emp, cust |-> f[k].cust,
                          job |-> f[k].job, service |-> f[k].service,
                          item |-> f[k].item,
                          stage |-> f[k].stage, s |-> f[k].s, e |-> f[k].e,
                          hours |-> f[k].hours]]

\* Sequences of up to n rows in (start, end) order, none before the row lo.
RECURSIVE SortedFrom(_, _, _)
SortedFrom(lo, n, choices) ==
    {<<>>} \cup
    (IF n = 0 THEN {}
     ELSE UNION {{<<r>> \o rest : rest \in SortedFrom(r, n - 1, choices)} :
                    r \in {c \in choices : RowLE(lo, c)}})

\* Frames of 1..n rows in (start, end) order; the rows may overlap.
OverlapFrames(choices, n) ==
    {Labelled(f) : f \in SortedFrom([s |-> 0, e |-> 0], n, choices) \ {<<>>}}

\* Schedules of up to n rows from time t on, each row starting at or after the
\* end of the one before: no double-booking.
RECURSIVE SchedulesFrom(_, _, _)
SchedulesFrom(t, n, choices) ==
    {<<>>} \cup
    (IF n = 0 THEN {}
     ELSE UNION {{<<r>> \o rest : rest \in SchedulesFrom(r.e, n - 1, choices)} :
                    r \in {c \in choices : c.s >= t}})

ScheduleFrames(choices, n) ==
    {Labelled(f) : f \in SchedulesFrom(DayStart, n, choices) \ {<<>>}}

\* A day with one row that runs past 16:00.
LateFrames ==
    {Labelled(<<r>>) : r \in RowChoices({Al}, {P2}, {FallbackEnd - 1, FallbackEnd + 1})}

\* The rows with the Item column set: every row of rows with every item.
WithItems(rows, items) == {[r EXCEPT !.item = i] : r \in rows, i \in items}

\* Frames with an Item column: schedules of up to MaxItemRows rows of customer
\* "Al" in stage "P2", items "1" and "2", without double-booking.
ItemFrames ==
    ScheduleFrames(WithItems(RowChoices({Al}, {P2}, DayStart..(DayStart + MaxItemTime)),
                             {<<"1">>, <<"2">>}),
                   MaxItemRows)

\* The frames handed to the Consolidator.
ConsFrames ==
    ScheduleFrames(RowChoices({Al, Bo, Cy}, {P2}, Times), MaxRows) \cup
    ItemFrames \cup
    OverlapFrames(RowChoices({Al, Bo}, {P2}, DayStart..(DayStart + MaxOverlapTime)),
                  MaxOverlapRows) \cup
    LateFrames

\* A "by" that keeps a time of day: " 10:00" appended to by_date.
MidMorning(d) == 24 * d + DayStart + 2

\* Line 1334: "by" is by_date + " 00:00", the midnight that begins day d,
\* counted from the day of the rows, in hours of that day.  by_date is the text
\* of a date (st.date_input, lines 672-677), so a target never carries a time
\* of day.
Midnight(d) == 24 * d

\* The by_date of a target: the day of the rows or the day after.
TargetDays == {0, 1}

\* Deadline targets of cfg.priorities.targets
TargetChoices ==
    {[customer |-> BoAsTarget, stage |-> P2AsTarget, by |-> Midnight(d)] : d \in TargetDays}
\* No target, one target, or two targets of the same (customer, stage).
TargetSets ==
    {{}} \cup {{t} : t \in TargetChoices} \cup
    {{[customer |-> BoAsTarget, stage |-> P2AsTarget, by |-> Midnight(1)],
      [customer |-> Bo, stage |-> P2, by |-> Midnight(0)]}}

\* The weekday's shift rows of the employee, as cfg lists them: none; one shift;
\* three shifts out of order, one of them empty and two written without the
\* leading zero; one shift whose start text has no minutes.
ShiftChoices ==
    { <<>>,
      << <<Padded(DayStart + 1), Padded(DayStart + MaxTime)>> >>,
      << <<Padded(DayStart + 2), Padded(DayStart + MaxTime)>>,
         <<Unpadded(DayStart + 1), Unpadded(DayStart + 1)>>,
         <<Padded(DayStart), Unpadded(DayStart + 1)>> >>,
      << << <<"9">>, Padded(DayStart + 2)>> >> }

\* ------------------------------------------- enforce_non_preemptive_finish_started
InitCons ==
    /\ c_pc = "start"
    /\ c_df \in ConsFrames
    /\ c_shifts \in ShiftChoices
    /\ c_targets \in TargetSets
    /\ c_segments = <<>>
    /\ c_seg = 0
    /\ c_pending = <<>>
    /\ c_cursor = 0
    /\ c_used = {}
    /\ c_i = 0
    /\ c_out_rows = <<>>
    /\ c_out = <<>>
    /\ c_hist = <<>>
    /\ BatchIdle
    /\ PropIdle
    /\ RunIdle
    /\ PipeIdle

\* Lines 918-1006: sort the frame, look up the day's segments (or the fallback).
ConsPrepare ==
    /\ c_pc = "start"
    /\ c_df' = SortRows(c_df)
    /\ c_segments' = IF DayRows(c_df) = <<>> THEN <<>>
                      ELSE SegmentsOfDay(c_shifts, DayRows(SortRows(c_df)))
    /\ c_seg' = 1
    /\ c_pc' = "segment"
    /\ UNCHANGED <<c_shifts, c_targets, c_pending, c_cursor, c_used, c_i,
                   c_out_rows, c_out, c_hist>>
    /\ UNCHANGED <<batchVars, propVars, runVars, pipeVars>>

\* Lines 1009-1031: clip the day's rows to the next segment, reset cursor and used.
ConsSegmentBegin ==
    /\ c_pc = "segment"
    /\ c_seg <= Len(c_segments)
    /\ c_pending' = PendingOf(c_df, c_segments[c_seg])
    /\ c_cursor' = c_segments[c_seg][1]
    /\ c_used' = {}
    /\ c_i' = 1
    /\ c_pc' = "loop"
    /\ UNCHANGED <<c_df, c_shifts, c_targets, c_segments, c_seg, c_out_rows, c_out, c_hist>>
    /\ UNCHANGED <<batchVars, propVars, runVars, pipeVars>>

\* Lines 1036-1038: a row already consumed by an earlier merge is skipped.
ConsSkipUsed ==
    /\ c_pc = "loop"
    /\ c_i <= Len(c_pending)
    /\ c_i \in c_used
    /\ c_i' = c_i + 1
    /\ UNCHANGED <<c_pc, c_df, c_shifts, c_targets, c_segments, c_seg, c_pending,
                   c_cursor, c_used, c_out_rows, c_out, c_hist>>
    /\ UNCHANGED <<batchVars, propVars, runVars, pipeVars>>

HistEntry(kind, row) ==
    [seg |-> c_seg, kind |-> kind, i |-> c_i, head |-> c_pending[c_i],
     sibs |-> same_idxs(c_pending, c_used, c_i), cursor |-> c_cursor,
     at |-> start0(c_cursor, c_pending[c_i]),
     proposed |-> proposed_end(c_pending, c_used, c_i, c_cursor), row |-> row]

\* Lines 1076-1085: the merge is rejected; r0 is emitted alone.
ConsReject ==
    /\ c_pc = "loop"
    /\ c_i <= Len(c_pending)
    /\ c_i \notin c_used
    /\ violates_deadline(c_pending, c_used, c_i, c_cursor,
                         _build_deadline_map(c_targets), c_segments[c_seg])
    /\ LET rr == RejectedRow(c_pending[c_i], c_cursor, c_segments[c_seg])
       IN  /\ c_out_rows' = Append(c_out_rows, rr)
           /\ c_cursor' = rr.e
           /\ c_hist' = Append(c_hist, HistEntry("reject", rr))
    /\ c_used' = c_used \cup {c_i}
    /\ c_i' = c_i + 1
    /\ UNCHANGED <<c_pc, c_df, c_shifts, c_targets, c_segments, c_seg, c_pending, c_out>>
    /\ UNCHANGED <<batchVars, propVars, runVars, pipeVars>>

\* Lines 1086-1098: the merge is accepted; the siblings are consumed.
ConsMerge ==
    /\ c_pc = "loop"
    /\ c_i <= Len(c_pending)
    /\ c_i \notin c_used
    /\ ~violates_deadline(c_pending, c_used, c_i, c_cursor,
                          _build_deadline_map(c_targets), c_segments[c_seg])
    /\ LET rr == MergedRow(c_pending, c_used, c_i, c_cursor, c_segments[c_seg])
       IN  /\ c_out_rows' = Append(c_out_rows, rr)
           /\ c_cursor' = rr.e
           /\ c_hist' = Append(c_hist, HistEntry("merge", rr))
    /\ c_used' = c_used \cup same_idxs(c_pending, c_used, c_i) \cup {c_i}
    /\ c_i' = c_i + 1
    /\ UNCHANGED <<c_pc, c_df, c_shifts, c_targets, c_segments, c_seg, c_pending, c_out>>
    /\ UNCHANGED <<batchVars, propVars, runVars, pipeVars>>

\* Line 1034: the while loop ends; on to the next segment.
ConsSegmentEnd ==
    /\ c_pc = "loop"
    /\ c_i > Len(c_pending)
    /\ c_seg' = c_seg + 1
    /\ c_pc' = "segment"
    /\ UNCHANGED <<c_df, c_shifts, c_targets, c_segments, c_pending, c_cursor,
                   c_used, c_i, c_out_rows, c_out, c_hist>>
    /\ UNCHANGED <<batchVars, propVars, runVars, pipeVars>>

\* Lines 1100-1112: out_rows (the sorted input when nothing was emitted), Hours
\* recomputed, sorted by (employee, start, end).
ConsReturn ==
    /\ c_pc = "segment"
    /\ c_seg > Len(c_segments)
    /\ c_out' = LET out == IF c_out_rows # <<>> THEN c_out_rows ELSE c_df
                IN  SortRows([k \in DOMAIN out |-> [out[k] EXCEPT !.hours = Duration(out[k])]])
    /\ c_pc' = "done"
    /\ UNCHANGED <<c_df, c_shifts, c_targets, c_segments, c_seg, c_pending, c_cursor,
                   c_used, c_i, c_out_rows, c_hist>>
    /\ UNCHANGED <<batchVars, propVars, runVars, pipeVars>>

NextCons ==
    \/ ConsPrepare
    \/ ConsSegmentBegin
    \/ ConsSkipUsed
    \/ ConsReject
    \/ ConsMerge
    \/ ConsSegmentEnd
    \/ ConsReturn

SpecCons == InitCons /\ [][NextCons]_vars

\* ------------------------------------------------ Consolidator: properties
\* The clipped rows of the segment a history record belongs to.
PendingOfEntry(h) == PendingOf(c_df, c_segments[h.seg])

\* The loop over the segment of history record number n has ended.
SegmentFinished(seg) ==
    \/ seg < c_seg
    \/ seg = c_seg /\ c_pc = "loop" /\ c_i > Len(c_pending)

\* The rows of a sequence that carry the task key.
WithKey(rows, key) == SelectSeq(rows, LAMBDA r : task_key(r) = key)

\* The rows emitted for a segment, in emission order.
EmittedFor(seg) ==
    LET hs == SelectSeq(c_hist, LAMBDA h : h.seg = seg)
    IN  [k \in DOMAIN hs |-> hs[k].row]

\* No two rows of a sorted list overlap in time.
NonOverlapping(rows) ==
    \A j \in DOMAIN rows : \A k \in DOMAIN rows : j < k => rows[j].e <= rows[k].s

KeysOf(rows) == {task_key(rows[k]) : k \in DOMAIN rows}

\* C1 as stated: for ANY input, once a segment's loop has ended, the hours emitted
\* for each task key equal the clipped input hours of that key in the segment.
C1_ConservationAnyInput ==
    \A seg \in DOMAIN c_segments :
        SegmentFinished(seg) =>
            LET pend == PendingOf(c_df, c_segments[seg])
            IN  \A key \in KeysOf(pend) :
                    SumHours(WithKey(EmittedFor(seg), key)) = SumHours(WithKey(pend, key))

\* C1 amended: coverage conservation.  When the clipped rows of a segment are
\* pairwise non-overlapping, then once the segment's loop has ended the hours
\* emitted for each task key equal the clipped input hours of that key, whether
\* merges were accepted or rejected.
C1_ConservationNonOverlapping ==
    \A seg \in DOMAIN c_segments :
        (SegmentFinished(seg) /\ NonOverlapping(PendingOf(c_df, c_segments[seg]))) =>
            LET pend == PendingOf(c_df, c_segments[seg])
            IN  \A key \in KeysOf(pend) :
                    SumHours(WithKey(EmittedFor(seg), key)) = SumHours(WithKey(pend, key))

\* A finished segment with non-overlapping rows in which a merge of two or more
\* fragments was accepted and a later row of another task was moved by the cursor.
C1_Witness ==
    \E seg \in DOMAIN c_segments :
        /\ SegmentFinished(seg)
        /\ NonOverlapping(PendingOf(c_df, c_segments[seg]))
        /\ \E k \in DOMAIN c_hist :
              c_hist[k].seg = seg /\ c_hist[k].kind = "merge" /\ c_hist[k].sibs # {}
        /\ \E k \in DOMAIN c_hist :
              c_hist[k].seg = seg /\ c_hist[k].row.s > c_hist[k].head.s

\* C2: boundary respect.  Every emitted row lies inside the segment it was
\* produced for, and starts no earlier than the earliest clipped start among the
\* fragments merged into it.
C2_BoundaryRespect ==
    \A k \in DOMAIN c_hist :
        LET h    == c_hist[k]
            seg  == c_segments[h.seg]
            pend == PendingOfEntry(h)
            frags == IF h.kind = "merge" THEN {h.i} \cup h.sibs ELSE {h.i}
        IN  /\ seg[1] <= h.row.s
            /\ h.row.e <= seg[2]
            /\ \A j \in frags : pend[j].s >= pend[h.i].s
            /\ h.row.s >= pend[h.i].s

\* In a segment taken from the employee's shifts, a row of the day began before
\* the segment and was clipped to it, and a merge of two or more fragments was
\* accepted.
C2_Witness ==
    /\ c_shifts # <<>>
    /\ \E k \in DOMAIN c_hist :
          /\ c_hist[k].kind = "merge"
          /\ c_hist[k].sibs # {}
          /\ \E j \in DOMAIN c_df :
                /\ c_df[j].s < c_segments[c_hist[k].seg][1]
                /\ c_df[j].e > c_segments[c_hist[k].seg][1]

\* Where the work of clipped row j ends in the row emitted by history record h:
\* the fragments of a merged row are laid end to end from its start, in order.
OutputEnd(h, pend, j) ==
    IF h.kind = "merge"
    THEN h.at + SumAt(pend, {m \in {h.i} \cup h.sibs : m <= j})
    ELSE h.row.e

\* C3: the Consolidator never violates a deadline.  Every clipped row whose
\* (customer, stage) has a deadline and that ended at or before it in the input
\* ends at or before it in the output, whether it was emitted on its own, behind
\* a merged row of another task, or absorbed into a merged row.  The deadlines
\* are those the program builds: the midnight that begins a date (line 1334).
C3_DeadlineNeverViolated ==
    \A k \in DOMAIN c_hist :
        LET h      == c_hist[k]
            pend   == PendingOfEntry(h)
            dl_map == _build_deadline_map(c_targets)
            frags  == IF h.kind = "merge" THEN {h.i} \cup h.sibs ELSE {h.i}
        IN  \A j \in frags :
                (HasDeadline(dl_map, DeadlineKey(pend[j]))
                    /\ pend[j].e <= dl_map[DeadlineKey(pend[j])])
                => OutputEnd(h, pend, j) <= dl_map[DeadlineKey(pend[j])]

\* A row with a deadline it met in the input has been emitted later than the
\* base schedule had it, behind a merged row of another task that took in a
\* fragment placed after it, and ends before its deadline.
C3_Witness ==
    \E k, m \in DOMAIN c_hist :
        LET h      == c_hist[k]
            pend   == PendingOfEntry(h)
            dl_map == _build_deadline_map(c_targets)
        IN  /\ m < k /\ c_hist[m].seg = h.seg
            /\ c_hist[m].kind = "merge"
            /\ \E x \in c_hist[m].sibs : x > h.i
            /\ task_key(c_hist[m].head) # task_key(h.head)
            /\ HasDeadline(dl_map, DeadlineKey(pend[h.i]))
            /\ pend[h.i].e <= dl_map[DeadlineKey(pend[h.i])]
            /\ h.row.s > pend[h.i].s
            /\ OutputEnd(h, pend, h.i) > pend[h.i].e
            /\ OutputEnd(h, pend, h.i) <= dl_map[DeadlineKey(pend[h.i])]

\* C18: when the weekday has no template segment, the Consolidator works with
\* exactly one synthetic segment, from the earliest start to the latest end of
\* the day's rows.
C18_FallbackIsObservedBounds ==
    (c_pc \notin {"idle", "start"} /\ day_segments_for(c_shifts) = <<>>) =>
        LET first == CHOOSE a \in {c_df[k].s : k \in DOMAIN c_df} :
                         \A k \in DOMAIN c_df : a <= c_df[k].s
            last  == CHOOSE b \in {c_df[k].e : k \in DOMAIN c_df} :
                         \A k \in DOMAIN c_df : b >= c_df[k].e
        IN  c_segments = << <<first, last>> >>

\* What the code does: without a template segment the one segment is 08:00 to
\* 16:00 of the day, whatever the rows are, and a row is cut to it.
C18_FallbackIsEightToSixteen ==
    (c_pc \notin {"idle", "start"} /\ day_segments_for(c_shifts) = <<>>) =>
        /\ c_segments = << <<FallbackStart, FallbackEnd>> >>
        /\ \A n \in DOMAIN c_out_rows :
              c_out_rows[n].s >= FallbackStart /\ c_out_rows[n].e <= FallbackEnd

\* A day without template whose only row runs from 15:00 to 17:00 came out as
\* 15:00 to 16:00.
C18_Witness ==
    /\ c_pc = "done"
    /\ day_segments_for(c_shifts) = <<>>
    /\ \E k \in DOMAIN c_df : c_df[k].e > FallbackEnd
    /\ \E n \in DOMAIN c_out : c_out[n].e = FallbackEnd /\ c_out[n].hours = 1

\* C19: every row the Consolidator emits or returns ends after it starts and
\* carries Hours = end - start, whatever the input: no row of zero or negative
\* length comes out.
C19_PositiveIntervals ==
    /\ \A n \in DOMAIN c_out_rows :
          c_out_rows[n].e > c_out_rows[n].s
    /\ c_pc = "done" =>
          \A n \in DOMAIN c_out :
              c_out[n].e > c_out[n].s /\ c_out[n].hours = c_out[n].e - c_out[n].s

\* The same for a base schedule without double-booking.
C19_PositiveWithoutDoubleBooking ==
    NonOverlapping(SortRows(c_df)) =>
        /\ \A n \in DOMAIN c_out_rows :
              c_out_rows[n].e > c_out_rows[n].s
        /\ c_pc = "done" =>
              \A n \in DOMAIN c_out :
                  c_out[n].e > c_out[n].s /\ c_out[n].hours = c_out[n].e - c_out[n].s

\* The Consolidator has returned a schedule without double-booking in which one
\* row was cut at a segment boundary and another was moved by a merge.
C19_Witness ==
    /\ c_pc = "done"
    /\ NonOverlapping(c_df)
    /\ \E n \in DOMAIN c_hist :
          c_hist[n].kind = "merge" /\ c_hist[n].sibs # {}
    /\ \E n \in DOMAIN c_hist :
          c_hist[n].row.s > c_hist[n].head.s
    /\ \E k \in DOMAIN c_df : \E seg \in DOMAIN c_segments :
          c_df[k].s < c_segments[seg][1] /\ c_df[k].e > c_segments[seg][1]

\* The indices of pending consumed before history record number n was made:
\* the heads of the earlier records of the segment and the siblings of the
\* merges among them.
UsedBefore(n) ==
    UNION {{c_hist[m].i} \cup (IF c_hist[m].kind = "merge" THEN c_hist[m].sibs ELSE {}) :
              m \in {x \in 1..(n - 1) : c_hist[x].seg = c_hist[n].seg}}

\* C24: the merge decision.  For a head r of pending the effective start is
\* max(cursor, r.start) and the proposed end is that start plus the hours of r
\* and of its later unconsumed rows of the same task key.  The merge is
\* rejected exactly when the proposed end is after the segment end, or some
\* other unconsumed row of another task key that starts before the proposed
\* end (the merge would push it later than its start) has a deadline earlier
\* than the proposed end.  An accepted merge emits one row from the effective
\* start to the proposed end and consumes every sibling.
C24_MergeDecision ==
    \A n \in DOMAIN c_hist :
        LET h      == c_hist[n]
            pend   == PendingOfEntry(h)
            used   == UsedBefore(n)
            seg    == c_segments[h.seg]
            dl_map == _build_deadline_map(c_targets)
            sibs   == {j \in DOMAIN pend : /\ j > h.i /\ j \notin used
                                          /\ task_key(pend[j]) = task_key(h.head)}
            blocked == \E k \in DOMAIN pend :
                          /\ k # h.i /\ k \notin used /\ k \notin sibs
                          /\ pend[k].s < h.proposed
                          /\ HasDeadline(dl_map, DeadlineKey(pend[k]))
                          /\ dl_map[DeadlineKey(pend[k])] < h.proposed
        IN  /\ h.head = pend[h.i] /\ h.i \notin used
            /\ h.at = Max(h.cursor, h.head.s)
            /\ h.sibs = sibs
            /\ h.proposed = h.at + h.head.hours + SumAt(pend, sibs)
            /\ h.kind = "reject" <=> (h.proposed > seg[2] \/ blocked)
            /\ h.kind = "merge" =>
                  /\ h.row.s = h.at /\ h.row.e = h.proposed
                  /\ h.row.hours = h.proposed - h.at
                  /\ task_key(h.row) = task_key(h.head)
                  /\ \A m \in DOMAIN c_hist :
                        (m > n /\ c_hist[m].seg = h.seg) => c_hist[m].i \notin sibs
                  /\ (n = Len(c_hist) /\ c_pc = "loop" /\ c_seg = h.seg) =>
                        ({h.i} \cup sibs) \subseteq c_used

\* In one segment a merge with siblings was rejected for the deadline of
\* another row although its proposed end was inside the segment, and a later
\* merge with siblings was accepted.
C24_Witness ==
    \E n, m \in DOMAIN c_hist :
        /\ n < m /\ c_hist[n].seg = c_hist[m].seg
        /\ c_hist[n].kind = "reject" /\ c_hist[n].sibs # {}
        /\ c_hist[n].proposed <= c_segments[c_hist[n].seg][2]
        /\ c_hist[m].kind = "merge" /\ c_hist[m].sibs # {}
        /\ c_hist[m].row.e = c_hist[m].proposed

\* C30: a segment whose clipped rows are pairwise non-overlapping.  At every
\* head of such a segment the proposed end is not after the segment end, so a
\* merge is rejected only for a deadline; the emitted row, merged or alone, ends
\* where its hours end, the clamp to the segment end cutting nothing; and it
\* starts at or after the end of every row emitted before it for the segment.
C30_NoTruncationWhenNonOverlapping ==
    \A n \in DOMAIN c_hist :
        LET h    == c_hist[n]
            pend == PendingOfEntry(h)
            seg  == c_segments[h.seg]
        IN  NonOverlapping(pend) =>
                /\ h.proposed <= seg[2]
                /\ h.kind = "reject" =>
                      deadline_conflict(pend, UsedBefore(n), h.i, h.cursor,
                                        _build_deadline_map(c_targets))
                /\ h.row.s = h.at
                /\ h.row.e = IF h.kind = "merge" THEN h.proposed
                             ELSE h.at + h.head.hours
                /\ h.row.e <= seg[2]
                /\ h.row.hours = IF h.kind = "merge"
                                 THEN h.head.hours + SumAt(pend, h.sibs)
                                 ELSE h.head.hours
                /\ \A m \in 1..(n - 1) :
                      c_hist[m].seg = h.seg => c_hist[m].row.e <= h.row.s

\* A finished segment with non-overlapping clipped rows, one of them cut at the
\* segment start: a merge of two or more fragments was accepted, and a row
\* pushed later by the cursor ends exactly at the segment end.
C30_Witness ==
    \E seg \in DOMAIN c_segments :
        LET pend == PendingOf(c_df, c_segments[seg])
        IN  /\ SegmentFinished(seg)
            /\ NonOverlapping(pend)
            /\ \E k \in DOMAIN c_df :
                  c_df[k].s < c_segments[seg][1] /\ c_df[k].e > c_segments[seg][1]
            /\ \E n \in DOMAIN c_hist :
                  c_hist[n].seg = seg /\ c_hist[n].kind = "merge" /\ c_hist[n].sibs # {}
            /\ \E n \in DOMAIN c_hist :
                  /\ c_hist[n].seg = seg
                  /\ c_hist[n].row.s > c_hist[n].head.s
                  /\ c_hist[n].row.e = c_segments[seg][2]

\* The row overlaps one of the day's segments by more than an instant.
OverlapsSegment(r) ==
    \E n \in DOMAIN c_segments :
        Min(r.e, c_segments[n][2]) > Max(r.s, c_segments[n][1])
\* The returned frame has a row of the employee and task key of r.
Contributes(r) ==
    \E j \in DOMAIN c_out : c_out[j].emp = r.emp /\ task_key(c_out[j]) = task_key(r)

\* C27: the Consolidator loses no task: every input row with a start and an end
\* has a row of its employee and task key in the returned frame, also when it
\* lies partly or wholly outside the segments of the day.  Stated for a base
\* schedule without double-booking.
C27_NoTaskLost ==
    (c_pc = "done" /\ NonOverlapping(c_df)) =>
        \A k \in DOMAIN c_df : HasTimes(c_df[k]) => Contributes(c_df[k])

\* C27 for the rows that reach into a segment: every input row that overlaps
\* a segment of the day has a row of its employee and task key in the returned
\* frame, and every returned row has the key of an input row.
C27_NoTaskLostInsideSegments ==
    c_pc = "done" =>
        /\ \A k \in DOMAIN c_df :
              (HasTimes(c_df[k]) /\ OverlapsSegment(c_df[k])) => Contributes(c_df[k])
        /\ \A j \in DOMAIN c_out :
              \E k \in DOMAIN c_df :
                  c_df[k].emp = c_out[j].emp /\ task_key(c_df[k]) = task_key(c_out[j])

\* The Consolidator has returned a day whose shift starts after the first row
\* has begun: that row was cut to the segment and is in the returned frame,
\* next to a row that came out of a merge.
C27_Witness ==
    /\ c_pc = "done"
    /\ c_out_rows # <<>>
    /\ \E k \in DOMAIN c_df : \E j \in DOMAIN c_out :
          /\ c_df[k].s < c_segments[1][1] /\ c_df[k].e > c_segments[1][1]
          /\ c_out[j].id = c_df[k].id
          /\ c_out[j].s = c_segments[1][1]
    /\ \E n \in DOMAIN c_hist : c_hist[n].kind = "merge" /\ c_hist[n].sibs # {}

\* C9 as stated, for a base schedule without double-booking: after a rejected
\* merge the head and each same-key sibling are emitted as separate rows with
\* their clipped start, end and duration.
C9_RejectKeepsFragments ==
    NonOverlapping(c_df) =>
    \A k \in DOMAIN c_hist :
        LET h    == c_hist[k]
            pend == PendingOfEntry(h)
        IN  (h.kind = "reject" /\ h.sibs # {} /\ SegmentFinished(h.seg)) =>
                /\ h.row = h.head
                /\ \A j \in h.sibs :
                      \E m \in DOMAIN c_hist :
                          /\ c_hist[m].seg = h.seg
                          /\ c_hist[m].i = j
                          /\ c_hist[m].row = pend[j]

\* C9 amended: a rejected merge emits the head alone, from max(cursor, its clipped
\* start) to min(that start + its clipped duration, segment end), so the head is
\* unchanged when the cursor has not passed its start; the rejection consumes no
\* sibling, and each sibling is emitted by a later iteration of the same segment,
\* as a head or absorbed into a later merge.
C9_RejectEmitsHeadAlone ==
    \A k \in DOMAIN c_hist :
        LET h    == c_hist[k]
            seg  == c_segments[h.seg]
        IN  h.kind = "reject" =>
                /\ h.row.s = Max(h.cursor, h.head.s)
                /\ h.row.e = Min(h.row.s + h.head.hours, seg[2])
                /\ task_key(h.row) = task_key(h.head)
                /\ (h.cursor <= h.head.s => h.row = h.head)
                /\ (h.seg = c_seg /\ c_pc = "loop" /\ k = Len(c_hist)) =>
                        h.sibs \cap c_used = {}
                /\ SegmentFinished(h.seg) =>
                        \A j \in h.sibs :
                            \E m \in (k + 1)..Len(c_hist) :
                                /\ c_hist[m].seg = h.seg
                                /\ \/ c_hist[m].i = j
                                   \/ c_hist[m].kind = "merge" /\ j \in c_hist[m].sibs

\* A finished segment in which a merge was rejected for a head that had siblings
\* and that the cursor had already passed.
C9_Witness ==
    \E k \in DOMAIN c_hist :
        /\ c_hist[k].kind = "reject"
        /\ c_hist[k].sibs # {}
        /\ SegmentFinished(c_hist[k].seg)
        /\ \E m \in DOMAIN c_hist :
              c_hist[m].kind = "reject" /\ c_hist[m].cursor > c_hist[m].head.s

\* ============================================================ batch_like_tasks
\* _stage_base: strip and lower, "-" and "_" to blanks, runs of blanks to one
\* blank, digits removed, strip
ReplaceDashes(s) == [k \in 1..Len(s) |-> IF s[k] \in {"-", "_"} THEN " " ELSE s[k]]
RECURSIVE CollapseBlanks(_)
CollapseBlanks(s) ==
    IF Len(s) < 2 THEN s
    ELSE IF s[1] = " " /\ s[2] = " " THEN CollapseBlanks(Tail(s))
    ELSE <<s[1]>> \o CollapseBlanks(Tail(s))
RemoveDigits(s) == SelectSeq(s, LAMBDA c : c \notin Digits)
_stage_base(stage) ==
    Strip(RemoveDigits(CollapseBlanks(ReplaceDashes(Lower(Strip(stage))))))

\* gday["__base__"]: the stage bases of the day's rows
BasesOf(gday) == {_stage_base(gday[k].stage) : k \in DOMAIN gday}
\* gday.groupby("__base__")[c_sta].min()
MinStart(gday, b) ==
    CHOOSE m \in {gday[k].s : k \in {j \in DOMAIN gday : _stage_base(gday[j].stage) = b}} :
        \A k \in DOMAIN gday : _stage_base(gday[k].stage) = b => m <= gday[k].s
\* base_order: the bases by earliest original start.  sort_values() is not a
\* stable sort, so bases with the same earliest start may come in either order.
BaseOrders(gday) ==
    {o \in [1..Cardinality(BasesOf(gday)) -> BasesOf(gday)] :
        /\ \A j, k \in DOMAIN o : j # k => o[j] # o[k]
        /\ \A j, k \in DOMAIN o : j < k => MinStart(gday, o[j]) <= MinStart(gday, o[k])}
\* reordered: the rows base by base, in gday order within a base
RECURSIVE Reordered(_, _)
Reordered(gday, order) ==
    IF order = <<>> THEN <<>>
    ELSE SelectSeq(gday, LAMBDA r : _stage_base(r.stage) = Head(order))
         \o Reordered(gday, Tail(order))

\* start_new with the max() left out: the row starts wherever the cursor is.
start_newAtCursor(cursor, r) == cursor

\* start_new = max(cursor, orig_start)
start_new(cursor, r) == Max(cursor, r.s)
\* end_new = start_new + pd.Timedelta(hours=dur)
end_new(cursor, r) == start_new(cursor, r) + r.hours

\* The deadline check switched off.
deadline_missedNever(dl_map, cursor, r) == FALSE

\* Lines 1171-1176: the row's own (customer, stage) has a deadline and the new
\* end is after it
deadline_missed(dl_map, cursor, r) ==
    /\ DOMAIN dl_map # {}
    /\ HasDeadline(dl_map, DeadlineKey(r))
    /\ end_new(cursor, r) > dl_map[DeadlineKey(r)]

\* the row written when the move is made
MovedRow(cursor, r) ==
    [r EXCEPT !.s = start_new(cursor, r), !.e = end_new(cursor, r)]

\* ---- inputs
PDash1 == <<"p", "-", "1">>
Sand == <<"S">>
\* The last hours of the day of the rows, up to the midnight that ends it: the
\* hours in which a deadline of the next day's date comes within reach of the
\* cursor.
BatchTimes == (Midnight(1) - MaxBatchTime)..Midnight(1)
\* Rows of employee "ann": "Bo"/"P2", "Al"/"p-1" and "Al"/"S" rows with a
\* length, and "Al"/"S" rows without one.
BatchRowChoices ==
    {[emp |-> EmpAnn, cust |-> cs[1], job |-> Chair, service |-> Refinish, item |-> NoItem,
      stage |-> cs[2], s |-> iv[1], e |-> iv[2], hours |-> iv[2] - iv[1]] :
        cs \in {<<Bo, P2>>, <<Al, PDash1>>, <<Al, Sand>>},
        iv \in {x \in BatchTimes \X BatchTimes : x[1] < x[2]}}
    \cup
    {[emp |-> EmpAnn, cust |-> Al, job |-> Chair, service |-> Refinish, item |-> NoItem,
      stage |-> Sand, s |-> x, e |-> x, hours |-> 0] : x \in BatchTimes \ {Midnight(1)}}
BatchFrames == OverlapFrames(BatchRowChoices, MaxBatchRows)
\* cfg.priorities.targets: no target; a target for " bo" / "p2 " by the day of
\* the rows or by the day after; two targets of the same (customer, stage).
BatchTargetSets ==
    {{}} \cup {{t} : t \in TargetChoices} \cup
    {{[customer |-> BoAsTarget, stage |-> P2AsTarget, by |-> Midnight(1)],
      [customer |-> Bo, stage |-> P2, by |-> Midnight(0)]}}

\* ---- actions
InitBatch ==
    /\ b_pc = "start"
    /\ b_df \in BatchFrames
    /\ b_targets \in BatchTargetSets
    /\ b_reordered = <<>>
    /\ b_cursor = 0
    /\ b_k = 0
    /\ b_out_rows = <<>>
    /\ b_out = <<>>
    /\ b_hist = <<>>
    /\ ConsIdle
    /\ PropIdle
    /\ RunIdle
    /\ PipeIdle

\* Lines 1132-1162: sort the day's rows, order the stage bases by earliest start,
\* regroup the rows, set the cursor to the first row's start.
BatchPrepare ==
    /\ b_pc = "start"
    /\ LET gday == DayRows(SortRows(b_df))
       IN  /\ \E order \in BaseOrders(gday) : b_reordered' = Reordered(gday, order)
           /\ b_cursor' = IF gday = <<>> THEN 0 ELSE gday[1].s
    /\ b_df' = SortRows(b_df)
    /\ b_k' = 1
    /\ b_pc' = "loop"
    /\ UNCHANGED <<b_targets, b_out_rows, b_out, b_hist>>
    /\ UNCHANGED <<consVars, propVars, runVars, pipeVars>>

BatchEntry(kind, row) ==
    [k |-> b_k, kind |-> kind, r |-> b_reordered[b_k], cursor |-> b_cursor, row |-> row]

\* Line 1165: pd.isna(orig_start) or pd.isna(orig_end) or dur <= 0
NotPlaced(r) == r.s = NaT \/ r.e = NaT \/ (r.hours # NaT /\ r.hours <= 0)

\* Lines 1165-1166: a row without an end or without duration is passed through.
BatchPassThrough ==
    /\ b_pc = "loop"
    /\ b_k <= Len(b_reordered)
    /\ NotPlaced(b_reordered[b_k])
    /\ b_out_rows' = Append(b_out_rows, b_reordered[b_k])
    /\ b_hist' = Append(b_hist, BatchEntry("pass", b_reordered[b_k]))
    /\ b_k' = b_k + 1
    /\ UNCHANGED <<b_pc, b_df, b_targets, b_reordered, b_cursor, b_out>>
    /\ UNCHANGED <<consVars, propVars, runVars, pipeVars>>

\* Lines 1178-1181: the move would miss the row's deadline; original placement kept.
BatchKeep ==
    /\ b_pc = "loop"
    /\ b_k <= Len(b_reordered)
    /\ ~NotPlaced(b_reordered[b_k])
    /\ deadline_missed(_build_deadline_map(b_targets), b_cursor, b_reordered[b_k])
    /\ b_out_rows' = Append(b_out_rows, b_reordered[b_k])
    /\ b_cursor' = Max(b_cursor, b_reordered[b_k].e)
    /\ b_hist' = Append(b_hist, BatchEntry("keep", b_reordered[b_k]))
    /\ b_k' = b_k + 1
    /\ UNCHANGED <<b_pc, b_df, b_targets, b_reordered, b_out>>
    /\ UNCHANGED <<consVars, propVars, runVars, pipeVars>>

\* Lines 1182-1188: the row is placed at max(cursor, original start).
BatchMove ==
    /\ b_pc = "loop"
    /\ b_k <= Len(b_reordered)
    /\ ~NotPlaced(b_reordered[b_k])
    /\ ~deadline_missed(_build_deadline_map(b_targets), b_cursor, b_reordered[b_k])
    /\ b_out_rows' = Append(b_out_rows, MovedRow(b_cursor, b_reordered[b_k]))
    /\ b_cursor' = end_new(b_cursor, b_reordered[b_k])
    /\ b_hist' = Append(b_hist, BatchEntry("move", MovedRow(b_cursor, b_reordered[b_k])))
    /\ b_k' = b_k + 1
    /\ UNCHANGED <<b_pc, b_df, b_targets, b_reordered, b_out>>
    /\ UNCHANGED <<consVars, propVars, runVars, pipeVars>>

\* Lines 1190-1199: out_rows (the sorted input when nothing was emitted), Hours
\* recomputed, the frame sorted by (employee, start, end).
BatchReturn ==
    /\ b_pc = "loop"
    /\ b_k > Len(b_reordered)
    /\ b_out' = LET out == IF b_out_rows # <<>> THEN b_out_rows ELSE b_df
                IN  SortRows([k \in DOMAIN out |-> [out[k] EXCEPT !.hours = Duration(out[k])]])
    /\ b_pc' = "done"
    /\ UNCHANGED <<b_df, b_targets, b_reordered, b_cursor, b_k, b_out_rows, b_hist>>
    /\ UNCHANGED <<consVars, propVars, runVars, pipeVars>>

NextBatch ==
    \/ BatchPrepare
    \/ BatchPassThrough
    \/ BatchKeep
    \/ BatchMove
    \/ BatchReturn

SpecBatch == InitBatch /\ [][NextBatch]_vars

\* ---------------------------------------------------- Batcher: properties
\* The input row with the identifier of an output row.
InputOf(row) == b_df[CHOOSE j \in DOMAIN b_df : b_df[j].id = row.id]

\* C4: monotonic batching.  Every row the Batcher writes, moved, kept in place
\* or passed through, starts at or after the original start of that row, in the
\* loop and in the returned frame.
C4_MonotonicBatching ==
    /\ \A n \in DOMAIN b_hist : b_hist[n].row.s >= b_hist[n].r.s
    /\ b_pc = "done" =>
          /\ Len(b_out) = Len(b_df)
          /\ \A n \in DOMAIN b_out : b_out[n].s >= InputOf(b_out[n]).s

\* The Batcher has returned a day in which the stage bases were regrouped, one
\* row was moved to a later start and one row was kept where it was because the
\* move would have missed its deadline.
C4_Witness ==
    /\ b_pc = "done"
    /\ b_reordered # b_df
    /\ \E n \in DOMAIN b_hist :
          b_hist[n].kind = "move" /\ b_hist[n].row.s > b_hist[n].r.s
    /\ \E n \in DOMAIN b_hist :
          b_hist[n].kind = "keep" /\ b_hist[n].cursor > b_hist[n].r.s

\* C5: deadline preservation.  A row whose own (customer, stage) has a deadline
\* and whose original end is at or before it ends at or before it in the output;
\* a move that would end after the deadline is not made and the row keeps its
\* original start and end.
C5_DeadlinePreserved ==
    LET dl_map == _build_deadline_map(b_targets)
    IN  /\ \A n \in DOMAIN b_hist :
              LET h == b_hist[n]
              IN  HasDeadline(dl_map, DeadlineKey(h.r)) =>
                    /\ h.r.e <= dl_map[DeadlineKey(h.r)]
                          => h.row.e <= dl_map[DeadlineKey(h.r)]
                    /\ Max(h.cursor, h.r.s) + h.r.hours > dl_map[DeadlineKey(h.r)]
                          => h.row.s = h.r.s /\ h.row.e = h.r.e
        /\ b_pc = "done" =>
              \A n \in DOMAIN b_out :
                  (HasDeadline(dl_map, DeadlineKey(b_out[n]))
                      /\ InputOf(b_out[n]).e <= dl_map[DeadlineKey(b_out[n])])
                  => b_out[n].e <= dl_map[DeadlineKey(b_out[n])]

\* A row that met its deadline in the input, and that the cursor would have
\* pushed past the deadline, was kept in place; the Batcher has returned.
C5_Witness ==
    /\ b_pc = "done"
    /\ \E n \in DOMAIN b_hist :
          LET h == b_hist[n]
              dl_map == _build_deadline_map(b_targets)
          IN  /\ h.kind = "keep"
              /\ h.cursor > h.r.s
              /\ h.r.e <= dl_map[DeadlineKey(h.r)]

\* ---------------------------------------- stage families in the Batcher
\* Stage names as they are typed: a stem in one of two spellings, a separator
\* and a numeric suffix.  "Paint 2" and "paint-1" are among them.
Paint == <<"P", "a", "i", "n", "t">>
StemSpellings == {Paint, Lower(Paint)}
\* Between stem and suffix: nothing, a blank, a dash, an underscore, a dash
\* between blanks; or a dot.
DashSeparators == {<<>>, <<" ">>, <<"-">>, <<"_">>, <<" ", "-", " ">>}
DotSeparators == {<<".">>}
\* No suffix, or the digit 1 or 2 written up to n times.
Suffixes(n) ==
    {<<>>} \cup {[k \in 1..m |-> d] : m \in 1..n, d \in {"1", "2"}}
NamesOf(stems) ==
    {stem \o sep \o suf : stem \in stems,
                          sep \in DashSeparators \cup DotSeparators,
                          suf \in Suffixes(MaxSuffix)}
StageNames == NamesOf(StemSpellings)

\* A day of "ann": a row of "Al" in a stage of the Paint names at 08:00, a row
\* of "Bo" in stage "S" at 09:00, a second row of "Al" in a stage of the Paint
\* names at 10:00 and, in some days, a row of "Al" in stage "S" without length.
FamilyRow(cust, stage, s, e) ==
    [emp |-> EmpAnn, cust |-> cust, job |-> Chair, service |-> Refinish, item |-> NoItem,
     stage |-> stage, s |-> s, e |-> e, hours |-> e - s]
FamilyFrames ==
    {Labelled(<<FamilyRow(Al, a, DayStart, DayStart + 1),
                FamilyRow(Bo, Sand, DayStart + 1, DayStart + 2),
                FamilyRow(Al, b, DayStart + 2, DayStart + 3)>> \o tail) :
        a \in NamesOf({Paint}), b \in StageNames,
        tail \in {<<>>, <<FamilyRow(Al, Sand, DayStart + 3, DayStart + 3)>>}}
FamilyTargetSets ==
    {{}, {[customer |-> Bo, stage |-> Sand, by |-> Midnight(0)]}}

InitFamily ==
    /\ b_pc = "start"
    /\ b_df \in FamilyFrames
    /\ b_targets \in FamilyTargetSets
    /\ b_reordered = <<>>
    /\ b_cursor = 0
    /\ b_k = 0
    /\ b_out_rows = <<>>
    /\ b_out = <<>>
    /\ b_hist = <<>>
    /\ ConsIdle
    /\ PropIdle
    /\ RunIdle
    /\ PipeIdle

\* batch_like_tasks on the days above
SpecFamily == InitFamily /\ [][NextBatch]_vars

\* The letters of a stage name, lowered: what is left of it without case,
\* digits, separators and punctuation.
Skeleton(s) ==
    SelectSeq(Lower(s), LAMBDA c : \E k \in 1..26 : LowerLetters[k] = c)
\* The letters a name begins with, and whether all that follows them is made of
\* digits, blanks, dashes and underscores.
RECURSIVE StemOf(_)
StemOf(s) ==
    IF s = <<>> \/ Skeleton(<<Head(s)>>) = <<>> THEN <<>>
    ELSE <<Head(s)>> \o StemOf(Tail(s))
DashedName(s) ==
    \A k \in (Len(StemOf(s)) + 1)..Len(s) : s[k] \in Digits \cup {" ", "-", "_"}
\* The positions of reordered that hold the rows i and j of df, and no row of
\* another stage base between them.
PositionOf(id) == CHOOSE n \in DOMAIN b_reordered : b_reordered[n].id = id
OneGroup(i, j) ==
    /\ _stage_base(b_df[i].stage) = _stage_base(b_df[j].stage)
    /\ \A n \in DOMAIN b_reordered :
          (PositionOf(b_df[i].id) < n /\ n < PositionOf(b_df[j].id)) =>
              _stage_base(b_reordered[n].stage) = _stage_base(b_df[i].stage)

\* C22: any two stage names that differ only in letter case, in a numeric
\* suffix, or in separators and punctuation have the same stage base, and the
\* Batcher puts their rows into one group of the reordered day.
C22_SameFamilyOneGroup ==
    b_pc \in {"loop", "done"} =>
        \A i, j \in DOMAIN b_df :
            Skeleton(b_df[i].stage) = Skeleton(b_df[j].stage) => OneGroup(i, j)

\* C22 for names made of letters followed by digits, blanks, dashes and
\* underscores only: the stage base is the lowered stem, and two rows whose
\* names have the same lowered stem are in one group of the reordered day.
C22_SameFamilyWhenDashed ==
    b_pc \in {"loop", "done"} =>
        \A i, j \in DOMAIN b_df :
            (DashedName(b_df[i].stage) /\ DashedName(b_df[j].stage)) =>
                /\ _stage_base(b_df[i].stage) = Lower(StemOf(b_df[i].stage))
                /\ Skeleton(b_df[i].stage) = Skeleton(b_df[j].stage) => OneGroup(i, j)
                /\ Skeleton(b_df[i].stage) # Skeleton(b_df[j].stage) =>
                      _stage_base(b_df[i].stage) # _stage_base(b_df[j].stage)

\* The Batcher has returned a day with "Paint 2" at 08:00, "S" at 09:00 and
\* "paint-1" at 10:00: the two Paint rows come first, the second one where it
\* was, and the "S" row was moved behind them.
C22_Witness ==
    /\ b_pc = "done"
    /\ \E i, j, k \in DOMAIN b_df :
          /\ b_df[i].stage = Paint \o <<" ", "2">>
          /\ b_df[j].stage = Lower(Paint) \o <<"-", "1">>
          /\ b_df[k].stage = Sand /\ b_df[k].hours > 0
          /\ b_df[i].s < b_df[k].s /\ b_df[k].s < b_df[j].s
          /\ \E x, y, z \in DOMAIN b_out :
                /\ b_out[x].id = b_df[i].id /\ b_out[y].id = b_df[j].id
                /\ b_out[z].id = b_df[k].id
                /\ b_out[y].s >= b_out[x].e
                /\ b_out[z].s = b_out[y].e
                /\ b_out[z].s > b_df[k].s

\* ------------------------------------- the Batcher on days without overlap
\* Days of "ann" of up to MaxBookedRows rows in stages "P2" (customers "Bo" and
\* "Cy") and "S" (customer "Al"), each row starting at or after the end of the
\* one before, in some days after a row of "Al" in stage "S" without length at
\* the start of the day; no target, or a deadline for "Bo"/"P2" at the midnight
\* that begins the day of the rows or the day after.
BookedFrames ==
    {Labelled(first \o f) :
        first \in {<<>>, <<FamilyRow(Al, Sand, DayStart, DayStart)>>},
        f \in SchedulesFrom(DayStart, MaxBookedRows,
                RowChoices({Bo, Cy}, {P2}, DayStart..(DayStart + MaxBookedTime))
                    \cup RowChoices({Al}, {Sand}, DayStart..(DayStart + MaxBookedTime)))
              \ {<<>>}}
BookedTargetSets ==
    {{}} \cup {{[customer |-> Bo, stage |-> P2, by |-> Midnight(d)]} : d \in TargetDays}

InitBooked ==
    /\ b_pc = "start"
    /\ b_df \in BookedFrames
    /\ b_targets \in BookedTargetSets
    /\ b_reordered = <<>>
    /\ b_cursor = 0
    /\ b_k = 0
    /\ b_out_rows = <<>>
    /\ b_out = <<>>
    /\ b_hist = <<>>
    /\ ConsIdle
    /\ PropIdle
    /\ RunIdle
    /\ PipeIdle

\* batch_like_tasks on the days above
SpecBooked == InitBooked /\ [][NextBatch]_vars

\* C26: no double-booking after batching.  The rows of the day given to the
\* Batcher do not overlap; the rows it returns do not overlap either, whether
\* they were moved or kept in place by the deadline check.
C26_NoDoubleBooking ==
    (b_pc = "done" /\ NonOverlapping(b_df)) => NonOverlapping(b_out)

\* C26 for the rows the Batcher moves: they are laid one behind the other, so
\* no two moved rows overlap, and a day in which no row was kept in place by
\* the deadline check comes out without overlap.
C26_MovedRowsDoNotOverlap ==
    /\ \A n, m \in DOMAIN b_hist :
          (n < m /\ b_hist[n].kind = "move" /\ b_hist[m].kind = "move") =>
              b_hist[n].row.e <= b_hist[m].row.s
    /\ (b_pc = "done" /\ NonOverlapping(b_df)
            /\ \A n \in DOMAIN b_hist : b_hist[n].kind # "keep") =>
          NonOverlapping(b_out)

\* The Batcher has returned a day without overlap in which no row was kept in
\* place and two rows were moved to a later start, one behind the other.
C26_Witness ==
    /\ b_pc = "done"
    /\ NonOverlapping(b_df)
    /\ \A n \in DOMAIN b_hist : b_hist[n].kind # "keep"
    /\ \E n, m \in DOMAIN b_hist :
          /\ n < m
          /\ b_hist[n].kind = "move" /\ b_hist[n].row.s > b_hist[n].r.s
          /\ b_hist[m].kind = "move" /\ b_hist[m].row.s > b_hist[m].r.s
          /\ b_hist[m].row.s = b_hist[n].row.e
    /\ NonOverlapping(b_out)

\* ================================================= inject_carryovers_into_cfg
\* A date is a day number; date.weekday() is the day number modulo 7 (day 0 is
\* a Monday).  carry_to and the window dates are ISO date texts, whose text
\* order is the order of the dates.
Weekday(d) == d % 7

\* fetch_df and execute (lines 229-240) open a connection, run one statement,
\* commit and close: every query and every update of the function is a
\* transaction of its own, and the forms of other sessions commit between them.
\* The function is therefore taken one statement at a time: p_call holds the
\* local variables of the call in progress and what its queries returned.
EmpZed == "zed"
\* The employees table as the scenarios start: "ann", with id 1.
KnownEmployees == {EmpAnn}
\* employees.id is AUTOINCREMENT: "ann" has id 1, an employee added later id 2.
EmployeeId(name) == IF name = EmpAnn THEN 1 ELSE 2

\* _build_name_to_id(): SELECT id, name FROM employees
_build_name_to_id == [n \in p_employees |-> EmployeeId(n)]

\* _employee_has_day_off(emp_id, d): the days off in the table are those of
\* employee 1
_employee_has_day_off(emp_id, d) == emp_id = 1 /\ d \in p_days_off

\* ORDER BY start: the rows in ascending text order of start
RECURSIVE InsertByStart(_, _)
InsertByStart(x, sorted) ==
    IF sorted = <<>> THEN <<x>>
    ELSE IF TextLT(x[1], Head(sorted)[1]) THEN <<x>> \o sorted
    ELSE <<Head(sorted)>> \o InsertByStart(x, Tail(sorted))
RECURSIVE OrderByStart(_)
OrderByStart(rows) ==
    IF rows = <<>> THEN <<>>
    ELSE InsertByStart(rows[Len(rows)], OrderByStart(SubSeq(rows, 1, Len(rows) - 1)))

\* _day_shifts_for_employee(emp_id, weekday): the shifts in the table are those
\* of employee 1
_day_shifts_for_employee(emp_id, weekday) ==
    IF emp_id = 1 THEN OrderByStart(p_shifts[weekday]) ELSE <<>>

\* _hhmm_to_dt(d, hhmm): the hour of the first two ":" parts when both are
\* integers and make a valid time of day, 08:00 on any failure
_hhmm_to_dt(hhmm) ==
    LET parts == SplitColon(hhmm)
    IN  IF /\ Len(parts) >= 2 /\ IsInt(parts[1]) /\ IsInt(parts[2])
           /\ ParseInt(parts[1]) <= 23 /\ ParseInt(parts[2]) <= 59
        THEN ParseInt(parts[1])
        ELSE FallbackStart

\* cap_hours = max(0.0, end_dt - start_dt)
cap_hours(s, e) == Max(0, _hhmm_to_dt(e) - _hhmm_to_dt(s))

\* use_h that takes the whole segment whatever is left of the entry.
use_hWholeSegment(hours_remaining, cap) == cap

\* use_h = min(hours_remaining, cap_hours)
use_h(hours_remaining, cap) == Min(hours_remaining, cap)

\* Lines 1266-1282: the blocks of one date, and the hours left after it
RECURSIVE AllocSegments(_, _, _, _)
AllocSegments(r, d, segs, hours_remaining) ==
    IF segs = <<>> THEN [blocks |-> <<>>, left |-> hours_remaining]
    ELSE LET s   == Head(segs)[1]
             e   == Head(segs)[2]
             cap == cap_hours(s, e)
             u   == use_h(hours_remaining, cap)
             blk == [id |-> r.id, employee |-> r.employee, d |-> d,
                     s |-> _hhmm_to_dt(s), e |-> _hhmm_to_dt(s) + u]
         IN  IF cap <= 0 THEN AllocSegments(r, d, Tail(segs), hours_remaining)
             ELSE IF hours_remaining - u <= 0
                  THEN [blocks |-> <<blk>>, left |-> hours_remaining - u]
                  ELSE LET rest == AllocSegments(r, d, Tail(segs), hours_remaining - u)
                       IN  [blocks |-> <<blk>> \o rest.blocks, left |-> rest.left]

\* The consumed flag ignored by the selection.
UnconsumedAlways(r) == TRUE

\* WHERE consumed=0
Unconsumed(r) == r.consumed = 0

\* The upper end of the window ignored by the selection.
InWindowFromStart(r, window) == r.carry_to >= window[1]

\* AND carry_to>=? AND carry_to<=?
InWindow(r, window) == r.carry_to >= window[1] /\ r.carry_to <= window[2]

\* Line 1237: the ids of the rows of co
SelectedIds(ledger, window) ==
    {k \in DOMAIN ledger : Unconsumed(ledger[k]) /\ InWindow(ledger[k], window)}

\* ORDER BY carry_to, employee: the text order of the employee names.
EmployeeRank(name) == IF name = "ann" THEN 1 ELSE 2
RowBefore(a, b) ==
    \/ a.carry_to < b.carry_to
    \/ a.carry_to = b.carry_to /\ EmployeeRank(a.employee) < EmployeeRank(b.employee)

\* Line 1237: the orders in which the rows of co can come out of the query;
\* rows with the same carry_to and employee come in an order SQL leaves open.
Orders(ledger, window) ==
    LET ids == SelectedIds(ledger, window)
    IN  {o \in [1..Cardinality(ids) -> ids] :
            /\ \A a, b \in DOMAIN o : a # b => o[a] # o[b]
            /\ \A a, b \in DOMAIN o : a < b => ~RowBefore(ledger[o[b]], ledger[o[a]])}

\* The hours of a list of blocks.
RECURSIVE BlockHours(_)
BlockHours(blocks) ==
    IF blocks = <<>> THEN 0 ELSE (Head(blocks).e - Head(blocks).s) + BlockHours(Tail(blocks))

\* No call in progress.
NoCall ==
    [pc |-> "idle", window |-> <<0, 0>>, before |-> <<>>, co |-> <<>>,
     name_to_id |-> <<>>, r |-> 0, d |-> 0, hours_remaining |-> 0,
     special_projects |-> <<>>, seen |-> <<>>, marked |-> {}, reached |-> {},
     raised |-> FALSE]

\* Line 1257: the condition of the while loop, from which the call goes on to
\* the day off query of date d or leaves the loop for the update.
LoopCheck(c) ==
    IF c.hours_remaining > 0 /\ c.d <= c.window[2]
    THEN [c EXCEPT !.pc = "day_off"] ELSE [c EXCEPT !.pc = "mark"]

\* Lines 1247-1255: the for loop from row c.r of co on, up to the next query.
\* The row of an unknown employee is skipped (line 1250); float() of a stored
\* value that is not a number raises (line 1252) and nothing inside the
\* function catches it; a row without hours left is skipped (line 1254).
RECURSIVE Advance(_)
Advance(c) ==
    IF c.r > Len(c.co) THEN [c EXCEPT !.pc = "done"]
    ELSE LET row == c.co[c.r]
             on  == [c EXCEPT !.reached = @ \cup {row.id}]
         IN  IF row.employee \notin DOMAIN c.name_to_id
             THEN Advance([on EXCEPT !.r = @ + 1])
             ELSE IF ~row.numeric THEN [c EXCEPT !.pc = "done", !.raised = TRUE]
             ELSE IF row.hours_remaining <= 0 THEN Advance([on EXCEPT !.r = @ + 1])
             ELSE LoopCheck([on EXCEPT !.d = row.carry_to,
                                       !.hours_remaining = row.hours_remaining])

\* Only a row whose hours were all placed marked consumed.
MarkedIdsWhenPlaced(c) ==
    IF c.hours_remaining <= 0 THEN {c.co[c.r].id} ELSE {}

\* Line 1287: the row marked consumed once the while loop is left
MarkedIds(c) == {c.co[c.r].id}

\* The rows outside marked reset to unconsumed by the update.
MarkConsumedOnly(ledger, marked) ==
    [k \in DOMAIN ledger |->
        [ledger[k] EXCEPT !.consumed = IF k \in marked THEN 1 ELSE 0]]

\* The update clearing hours_remaining of the rows it marks as well.
MarkConsumedAndClear(ledger, marked) ==
    [k \in DOMAIN ledger |->
        IF k \in marked THEN [ledger[k] EXCEPT !.consumed = 1, !.hours_remaining = 0]
        ELSE ledger[k]]

\* Line 1287: UPDATE task_carryovers SET consumed=1 WHERE id=?; the only
\* statement of the program that writes the column.
MarkConsumed(ledger, marked) ==
    [k \in DOMAIN ledger |->
        IF k \in marked THEN [ledger[k] EXCEPT !.consumed = 1] ELSE ledger[k]]

\* ---- inputs
\* Ledger rows: of "ann" with no hours, one hour or MaxHours hours left, of
\* "zed", who is not in the employees table as the scenarios start, one row
\* consumed beforehand, and one row of "ann" whose hours_remaining column
\* holds a text that is not a number (numeric = FALSE).
EntryChoices ==
    << [employee |-> EmpAnn, hours_remaining |-> 1, carry_to |-> 0, consumed |-> 0,
        numeric |-> TRUE],
       [employee |-> EmpAnn, hours_remaining |-> MaxHours, carry_to |-> 0,
        consumed |-> 0, numeric |-> TRUE],
       [employee |-> EmpAnn, hours_remaining |-> MaxHours, carry_to |-> 1,
        consumed |-> 0, numeric |-> TRUE],
       [employee |-> EmpAnn, hours_remaining |-> 1, carry_to |-> MaxDay,
        consumed |-> 0, numeric |-> TRUE],
       [employee |-> EmpAnn, hours_remaining |-> 0, carry_to |-> 0, consumed |-> 0,
        numeric |-> TRUE],
       [employee |-> EmpZed, hours_remaining |-> 1, carry_to |-> 0, consumed |-> 0,
        numeric |-> TRUE],
       [employee |-> EmpAnn, hours_remaining |-> MaxHours, carry_to |-> 0,
        consumed |-> 1, numeric |-> TRUE],
       [employee |-> EmpAnn, hours_remaining |-> 0, carry_to |-> 1, consumed |-> 0,
        numeric |-> FALSE] >>
\* The tables of up to MaxEntries of these rows, no row twice; the ids follow
\* the order in which the rows were written.
Ledgers ==
    {[k \in DOMAIN f |-> [id |-> k, employee |-> EntryChoices[f[k]].employee,
                           hours_remaining |-> EntryChoices[f[k]].hours_remaining,
                           carry_to |-> EntryChoices[f[k]].carry_to,
                           consumed |-> EntryChoices[f[k]].consumed,
                           numeric |-> EntryChoices[f[k]].numeric]] :
        f \in {g \in UNION {[1..n -> DOMAIN EntryChoices] : n \in 0..MaxEntries} :
                  \A a, b \in DOMAIN g : a < b => g[a] < g[b]}}

\* Weekly templates, weekday -> shift rows in the order they were added.
\* Written "HH:MM": Monday 08:00-12:00 and 13:00-16:00, Tuesday nothing, the
\* other days 08:00-10:00.
ShiftsPadded ==
    [wd \in 0..6 |->
        IF wd = 0 THEN << <<Padded(8), Padded(12)>>, <<Padded(13), Padded(16)>> >>
        ELSE IF wd = 1 THEN <<>>
        ELSE << <<Padded(8), Padded(10)>> >>]
\* Typed with less care: Monday 9:00-12:00 and 13:00-16:00, Tuesday an empty
\* shift 12:00-12:00 added before 08:00-09:00, the other days a shift whose end
\* reads "1000" and 10:00-11:00.
ShiftsAsTyped ==
    [wd \in 0..6 |->
        IF wd = 0 THEN << <<Unpadded(9), Padded(12)>>, <<Padded(13), Padded(16)>> >>
        ELSE IF wd = 1 THEN << <<Padded(12), Padded(12)>>, <<Padded(8), Padded(9)>> >>
        ELSE << <<Padded(8), <<"1", "0", "0", "0">> >>, <<Padded(10), Padded(11)>> >>]
ShiftTemplates == {ShiftsPadded, ShiftsAsTyped}
DayOffChoices == {{}, {0}}
Windows == {<<0, MaxDay>>, <<1, 1>>}

\* The entries the log of a scenario still takes: the rows of the editor that
\* are still to be inserted, the entry of a call of run_scheduler_cached in
\* progress and the changes of the admin are counted in.
InFlight == IF r_caller = "none" THEN 0 ELSE 1
Room == MaxLog - Len(r_log) - Len(r_form) - InFlight - p_admin

\* ------------------------------------------------------------- admin_app
\* The forms of the admin that write the tables a run reads.  Each is one
\* execute(), a transaction of its own, committed by the script thread of the
\* admin's session whatever the other sessions are doing.
AdminDone ==
    /\ p_admin < MaxAdmin
    /\ Room >= 1
    /\ p_admin' = p_admin + 1
    /\ UNCHANGED <<p_ledger, p_calls, p_hist, p_call>>
    /\ UNCHANGED <<consVars, batchVars, runVars, pipeVars>>

\* Lines 333-345: "Add Employee"; the name is UNIQUE.
AddEmployee ==
    /\ EmpZed \notin p_employees
    /\ p_employees' = p_employees \cup {EmpZed}
    /\ UNCHANGED <<p_shifts, p_days_off, p_window>>
    /\ AdminDone

\* The shift row the admin adds: Tuesday 08:00-09:00.
AdminShifts == {<<1, <<Padded(8), Padded(9)>> >>}

\* Lines 351-365: "Add shift" for an employee of the table.
AddShift ==
    /\ EmpAnn \in p_employees
    /\ \E sh \in AdminShifts :
          p_shifts' = [p_shifts EXCEPT ![sh[1]] = Append(@, sh[2])]
    /\ UNCHANGED <<p_days_off, p_employees, p_window>>
    /\ AdminDone

\* The sequence without its element number k.
Without(seq, k) == SubSeq(seq, 1, k - 1) \o SubSeq(seq, k + 1, Len(seq))

\* Lines 375-384: "Delete shift", the first row shown for Monday.
DeleteShift ==
    /\ \E wd \in {0} : \E k \in DOMAIN p_shifts[wd] \cap {1} :
          p_shifts' = [p_shifts EXCEPT ![wd] = Without(@, k)]
    /\ UNCHANGED <<p_days_off, p_employees, p_window>>
    /\ AdminDone

\* Lines 386-414: "Delete employee"; ON DELETE CASCADE (lines 126, 135) takes
\* the employee's shifts and days off with it.
DeleteEmployee ==
    /\ EmpAnn \in p_employees
    /\ p_employees' = p_employees \ {EmpAnn}
    /\ p_shifts' = [wd \in DOMAIN p_shifts |-> <<>>]
    /\ p_days_off' = {}
    /\ UNCHANGED p_window
    /\ AdminDone

\* Lines 627-640: "Add day off" for an employee of the table.
AddDayOff ==
    /\ EmpAnn \in p_employees
    /\ \E d \in {0} : p_days_off' = p_days_off \cup {d}
    /\ UNCHANGED <<p_shifts, p_employees, p_window>>
    /\ AdminDone

\* Lines 683-697: "Save window & rules".
SaveWindow ==
    /\ p_window' \in Windows \ {p_window}
    /\ UNCHANGED <<p_shifts, p_days_off, p_employees>>
    /\ AdminDone

\* ---- actions
InitProp ==
    /\ p_ledger \in Ledgers
    /\ p_shifts \in ShiftTemplates
    /\ p_days_off \in DayOffChoices
    /\ p_employees = KnownEmployees
    /\ p_window \in Windows
    /\ p_calls = 0
    /\ p_hist = <<>>
    /\ p_call = NoCall
    /\ p_admin = 0
    /\ ConsIdle
    /\ BatchIdle
    /\ RunIdle
    /\ PipeIdle

\* The function has no return statement with a value (lines 1243, 1289).
ReturnedNone == [is_list |-> FALSE, items |-> <<>>]

\* What a statement of the call leaves as it is.
InjectFrame ==
    /\ UNCHANGED <<p_shifts, p_days_off, p_employees, p_window, p_calls, p_hist, p_admin>>
    /\ UNCHANGED <<consVars, batchVars, runVars, pipeVars>>

\* inject_carryovers_into_cfg(cfg, window_start, window_end) is called on a
\* fresh cfg, as run_scheduler_cached calls it (lines 1356-1359), with the
\* window of global_settings.
inject_call ==
    /\ p_call.pc = "idle"
    /\ p_calls < MaxCalls
    /\ p_call' = [NoCall EXCEPT !.pc = "select", !.window = p_window]
    /\ UNCHANGED p_ledger
    /\ InjectFrame

\* Line 1237: the SELECT of the unconsumed rows of the window; an empty result
\* ends the call (line 1243).
inject_select ==
    /\ p_call.pc = "select"
    /\ \E order \in Orders(p_ledger, p_call.window) :
         LET c == [p_call EXCEPT
                      !.before = p_ledger,
                      !.co = [n \in DOMAIN order |-> p_ledger[order[n]]],
                      !.special_projects = [k \in DOMAIN p_ledger |-> <<>>],
                      !.seen = [k \in DOMAIN p_ledger |-> <<>>]]
         IN  p_call' = [c EXCEPT !.pc = IF order = <<>> THEN "done" ELSE "names"]
    /\ UNCHANGED p_ledger
    /\ InjectFrame

\* Line 1245: the SELECT of the employees, and the for loop up to its first
\* query.
inject_names ==
    /\ p_call.pc = "names"
    /\ p_call' = Advance([p_call EXCEPT !.name_to_id = _build_name_to_id, !.r = 1])
    /\ UNCHANGED p_ledger
    /\ InjectFrame

\* Line 1258: the query of the days off for date d; on a day off the loop goes
\* on to the next date.
inject_day_off ==
    /\ p_call.pc = "day_off"
    /\ LET row    == p_call.co[p_call.r]
           emp_id == p_call.name_to_id[row.employee]
       IN  IF _employee_has_day_off(emp_id, p_call.d)
           THEN p_call' = LoopCheck([p_call EXCEPT
                              !.d = @ + 1,
                              !.seen[row.id] = Append(@, [d |-> p_call.d, off |-> TRUE,
                                                          shifts |-> <<>>])])
           ELSE p_call' = [p_call EXCEPT !.pc = "shifts"]
    /\ UNCHANGED p_ledger
    /\ InjectFrame

\* Lines 1261-1283: the query of the shifts of the weekday of date d, and the
\* blocks appended to cfg["special_projects"] for them.
inject_shifts ==
    /\ p_call.pc = "shifts"
    /\ LET row    == p_call.co[p_call.r]
           emp_id == p_call.name_to_id[row.employee]
           shifts == _day_shifts_for_employee(emp_id, Weekday(p_call.d))
           a      == AllocSegments(row, p_call.d, shifts, p_call.hours_remaining)
       IN  p_call' = LoopCheck([p_call EXCEPT
                         !.d = @ + 1,
                         !.hours_remaining = a.left,
                         !.special_projects[row.id] = @ \o a.blocks,
                         !.seen[row.id] = Append(@, [d |-> p_call.d, off |-> FALSE,
                                                     shifts |-> shifts])])
    /\ UNCHANGED p_ledger
    /\ InjectFrame

\* Lines 1285-1289: the UPDATE of the row the while loop was left for, and the
\* for loop up to its next query.
inject_mark ==
    /\ p_call.pc = "mark"
    /\ p_ledger' = MarkConsumed(p_ledger, MarkedIds(p_call))
    /\ p_call' = Advance([p_call EXCEPT !.marked = @ \cup MarkedIds(p_call),
                                        !.r = @ + 1])
    /\ InjectFrame

\* What a call has done, as it is kept for the properties: the table at the
\* SELECT and at the return, the window it was given, the names and the shifts its queries
\* returned, the rows it went through, and the blocks it appended.
CallRecord(c, after) ==
    [before   |-> c.before,
     after    |-> after,
     window   |-> c.window,
     names    |-> DOMAIN c.name_to_id,
     selected |-> {c.co[n].id : n \in DOMAIN c.co},
     reached  |-> c.reached,
     raised   |-> c.raised,
     returned |-> ReturnedNone,
     marked   |-> c.marked,
     seen     |-> c.seen,
     blocks   |-> c.special_projects]

\* The call returns, or is left by the exception.
inject_return ==
    /\ p_call.pc = "done"
    /\ p_hist' = Append(p_hist, CallRecord(p_call, p_ledger))
    /\ p_calls' = p_calls + 1
    /\ p_call' = NoCall
    /\ UNCHANGED <<p_ledger, p_shifts, p_days_off, p_employees, p_window, p_admin>>
    /\ UNCHANGED <<consVars, batchVars, runVars, pipeVars>>

\* One call of inject_carryovers_into_cfg, statement by statement.
inject_carryovers_into_cfg ==
    \/ inject_call
    \/ inject_select
    \/ inject_names
    \/ inject_day_off
    \/ inject_shifts
    \/ inject_mark
    \/ inject_return

\* The forms of the admin.
admin_app ==
    \/ AddEmployee
    \/ AddShift
    \/ DeleteShift
    \/ DeleteEmployee
    \/ AddDayOff
    \/ SaveWindow

NextProp == inject_carryovers_into_cfg \/ admin_app

SpecProp == InitProp /\ [][NextProp]_vars

\* ------------------------------------------------ propagation: properties
\* The ledger as call number k left it.
LedgerAfter(k) == p_hist[k].after

\* What the queries of call k returned while it allocated ledger row id: one
\* record per date asked about, in the order of the dates.
SeenFor(k, id) == p_hist[k].seen[id]
\* The date was a day off when the call asked.
OffSeen(k, id, d) ==
    \E n \in DOMAIN SeenFor(k, id) : SeenFor(k, id)[n].d = d /\ SeenFor(k, id)[n].off
\* The shift rows the call read for the date.
ShiftRowsSeen(k, id, d) ==
    UNION {{SeenFor(k, id)[n].shifts[m] : m \in DOMAIN SeenFor(k, id)[n].shifts} :
              n \in {j \in DOMAIN SeenFor(k, id) : SeenFor(k, id)[j].d = d}}

\* C6: exactly-once consumption.  A ledger row that a call allocated and marked
\* consumed gets no block from any later call, and its flag stays set.
C6_ExactlyOnce ==
    /\ \A k \in DOMAIN p_hist : \A m \in DOMAIN p_hist :
          k < m => \A id \in p_hist[k].marked :
                      /\ p_hist[m].blocks[id] = <<>>
                      /\ id \notin p_hist[m].marked
                      /\ p_hist[m].before[id].consumed = 1
    /\ \A k \in DOMAIN p_hist : \A id \in p_hist[k].marked : p_ledger[id].consumed = 1
    /\ \A id \in p_call.marked : p_ledger[id].consumed = 1

\* Two calls were made over the window; the first one allocated all the hours of
\* a ledger row and marked it.
C6_Witness ==
    /\ Len(p_hist) = 2
    /\ \E id \in p_hist[1].marked :
          /\ p_hist[1].blocks[id] # <<>>
          /\ BlockHours(p_hist[1].blocks[id]) = p_hist[1].before[id].hours_remaining

\* Call k asked about every date from the resumption date of row id to the end
\* of its window, and every shift with capacity it read for a date that was
\* not a day off carries a block that fills it: the cursor date has passed the
\* end.
WindowExhausted(k, id) ==
    LET r      == p_hist[k].before[id]
        seen   == SeenFor(k, id)
        blocks == p_hist[k].blocks[id]
    IN  /\ {seen[n].d : n \in DOMAIN seen} = r.carry_to..p_hist[k].window[2]
        /\ \A n \in DOMAIN seen : \A m \in DOMAIN seen[n].shifts :
              LET x == seen[n].shifts[m]
              IN  cap_hours(x[1], x[2]) > 0 =>
                      \E b \in DOMAIN blocks :
                          /\ blocks[b].d = seen[n].d
                          /\ blocks[b].s = _hhmm_to_dt(x[1])
                          /\ blocks[b].e - blocks[b].s = cap_hours(x[1], x[2])

\* What C12 says of row id of call k: it is consumed when the call ends, with
\* all its hours placed or with every shift the call read up to the window end
\* filled; in the second case the hours not placed are dropped: no later call
\* selects the row or injects a block for it.
ConsumedAtEndOfCall(k, id) ==
    LET r      == p_hist[k].before[id]
        blocks == p_hist[k].blocks[id]
    IN  /\ LedgerAfter(k)[id].consumed = 1
        /\ p_ledger[id].consumed = 1
        /\ \/ BlockHours(blocks) = r.hours_remaining
           \/ /\ BlockHours(blocks) < r.hours_remaining
              /\ WindowExhausted(k, id)
        /\ \A m \in DOMAIN p_hist :
              m > k => /\ id \notin p_hist[m].selected
                       /\ p_hist[m].blocks[id] = <<>>

\* C12: every selected row with hours left, of an employee the call found in
\* the employees table, is consumed when the call ends, because its hours were
\* all placed or because the cursor date passed the window end, and the hours
\* not placed are injected by no later call.
C12_ConsumedAtEndOfCall ==
    \A k \in DOMAIN p_hist : \A id \in p_hist[k].selected :
        LET r == p_hist[k].before[id]
        IN  (r.employee \in p_hist[k].names /\ r.numeric /\ r.hours_remaining > 0)
            => ConsumedAtEndOfCall(k, id)

\* C12 for the rows the loop of lines 1247-1289 gets to: the selected rows up
\* to the first one whose stored hours cannot be converted, all the selected
\* rows when there is none.
C12_ConsumedWhenReached ==
    \A k \in DOMAIN p_hist : \A id \in p_hist[k].selected \cap p_hist[k].reached :
        LET r == p_hist[k].before[id]
        IN  (r.employee \in p_hist[k].names /\ r.numeric /\ r.hours_remaining > 0)
            => ConsumedAtEndOfCall(k, id)

\* A row with more hours than the shifts up to the window end hold was given
\* some blocks and consumed, and a later call injected nothing for it.
C12_Witness ==
    /\ Len(p_hist) >= 2
    /\ \E id \in p_hist[1].marked :
          /\ p_hist[1].blocks[id] # <<>>
          /\ BlockHours(p_hist[1].blocks[id]) < p_hist[1].before[id].hours_remaining
          /\ p_hist[2].blocks[id] = <<>>
          /\ p_ledger[id].consumed = 1

\* A selected row call k cannot allocate: the employee was not in the
\* employees table when the call read it, or the stored hours cannot be
\* converted.
FailsToPropagate(k, r) == r.employee \notin p_hist[k].names \/ ~r.numeric

\* C14: a failure while propagating one ledger row does not abort the call: in
\* every call, a selected row that fails (unknown employee, stored field that
\* cannot be parsed) stays unconsumed, and every other selected row is gone
\* through in the same call, so that those with hours left are consumed.
C14_FailureDoesNotAbort ==
    \A k \in DOMAIN p_hist : \A id \in p_hist[k].selected :
        LET r == p_hist[k].before[id]
        IN  /\ FailsToPropagate(k, r) => LedgerAfter(k)[id].consumed = 0
            /\ (~FailsToPropagate(k, r) /\ r.hours_remaining > 0) =>
                  /\ LedgerAfter(k)[id].consumed = 1
                  /\ \/ p_hist[k].blocks[id] # <<>>
                     \/ WindowExhausted(k, id)

\* The same in the calls where the only failures are rows of unknown employees.
C14_UnknownEmployeeSkipped ==
    \A k \in DOMAIN p_hist :
        (\A id \in p_hist[k].selected : p_hist[k].before[id].numeric) =>
            \A id \in p_hist[k].selected :
                LET r == p_hist[k].before[id]
                IN  /\ FailsToPropagate(k, r) =>
                          /\ LedgerAfter(k)[id].consumed = 0
                          /\ p_hist[k].blocks[id] = <<>>
                    /\ ~FailsToPropagate(k, r) =>
                          /\ id \in p_hist[k].reached
                          /\ r.hours_remaining > 0 => LedgerAfter(k)[id].consumed = 1

\* A call went past a row of an unknown employee, left it unconsumed, and
\* allocated and consumed a row that comes after it in the query order.
C14_Witness ==
    \E k \in DOMAIN p_hist : \E id, other \in p_hist[k].selected :
        /\ p_hist[k].before[id].employee = EmpZed
        /\ EmpZed \notin p_hist[k].names
        /\ LedgerAfter(k)[id].consumed = 0
        /\ RowBefore(p_hist[k].before[id], p_hist[k].before[other])
        /\ p_hist[k].blocks[other] # <<>>
        /\ LedgerAfter(k)[other].consumed = 1

\* C15: a call reports its failures to the caller: when it returns after
\* skipping selected rows, it returns a list with one item per skipped row,
\* each naming the row and a reason.
C15_ReturnsSkippedList ==
    \A k \in DOMAIN p_hist :
        LET skipped == {id \in p_hist[k].selected :
                            FailsToPropagate(k, p_hist[k].before[id])}
        IN  (skipped # {} /\ ~p_hist[k].raised) =>
              /\ p_hist[k].returned.is_list
              /\ {p_hist[k].returned.items[n].id : n \in DOMAIN p_hist[k].returned.items}
                    = skipped

\* C7: capacity respected.  The blocks injected for a ledger row never add up to
\* more than its hours_remaining, and each block starts at the start of a shift
\* row the call read for its date and is no longer than that shift.
C7_CapacityRespected ==
    \A k \in DOMAIN p_hist : \A id \in DOMAIN p_hist[k].before :
        LET blocks == p_hist[k].blocks[id]
        IN  /\ BlockHours(blocks) <= p_hist[k].before[id].hours_remaining
            /\ \A n \in DOMAIN blocks :
                  \E x \in ShiftRowsSeen(k, id, blocks[n].d) :
                      /\ _hhmm_to_dt(x[1]) = blocks[n].s
                      /\ blocks[n].e - blocks[n].s <= cap_hours(x[1], x[2])

\* A ledger row was spread over two or more blocks, the first of which fills its
\* shift, and the blocks add up to the row's hours.
C7_Witness ==
    \E k \in DOMAIN p_hist : \E id \in DOMAIN p_hist[k].before :
        LET blocks == p_hist[k].blocks[id]
        IN  /\ Len(blocks) >= 2
            /\ BlockHours(blocks) = p_hist[k].before[id].hours_remaining
            /\ \E x \in ShiftRowsSeen(k, id, blocks[1].d) :
                  /\ _hhmm_to_dt(x[1]) = blocks[1].s
                  /\ blocks[1].e - blocks[1].s = cap_hours(x[1], x[2])

\* C10: window selection.  A call selects exactly the unconsumed rows whose
\* resumption date lies in the window it was given, and marks those of them it
\* goes through that belong to an employee it found in the table and have
\* hours left; a row whose resumption date is outside the window gets no block
\* and keeps its consumed flag as it was.
C10_WindowSelection ==
    \A k \in DOMAIN p_hist : \A id \in DOMAIN p_hist[k].before :
        LET r      == p_hist[k].before[id]
            window == p_hist[k].window
            inside == window[1] <= r.carry_to /\ r.carry_to <= window[2]
        IN  /\ id \in p_hist[k].selected <=> (r.consumed = 0 /\ inside)
            /\ ~inside =>
                  /\ p_hist[k].blocks[id] = <<>>
                  /\ LedgerAfter(k)[id].consumed = r.consumed
            /\ (/\ r.consumed = 0 /\ inside /\ id \in p_hist[k].reached
                /\ r.employee \in p_hist[k].names /\ r.numeric /\ r.hours_remaining > 0)
                  => LedgerAfter(k)[id].consumed = 1
            /\ p_hist[k].blocks[id] # <<>> => (r.consumed = 0 /\ inside)

\* A call left alone an unconsumed row of "ann" that resumes after the window
\* end, and allocated and marked another row that resumes inside the window.
C10_Witness ==
    \E k \in DOMAIN p_hist : \E id, other \in DOMAIN p_hist[k].before :
        /\ p_hist[k].before[id].carry_to > p_hist[k].window[2]
        /\ p_hist[k].before[id].employee = EmpAnn
        /\ EmpAnn \in p_hist[k].names
        /\ p_hist[k].before[id].hours_remaining > 0
        /\ LedgerAfter(k)[id].consumed = 0
        /\ p_hist[k].blocks[other] # <<>>
        /\ LedgerAfter(k)[other].consumed = 1

\* The blocks of ledger row id in call k are the greedy allocation over the
\* segments in chronological order:
\*   - each block is on a date from the resumption date on that was not a day
\*     off, starts at the start of a shift of that date, and is as long as the
\*     smaller of the hours still to place and the shift's capacity;
\*   - the blocks come in chronological order (two rows of the shift table
\*     with the same start give two blocks with the same start), and no shift
\*     with capacity that lies before a block (from the resumption date on, days
\*     off apart) is passed over;
\*   - no block follows once the hours have reached zero;
\*   - the row is consumed after the call.
\* The days off and the shifts are those the call read.
GreedyChronological(k, id) ==
    LET r      == p_hist[k].before[id]
        blocks == p_hist[k].blocks[id]
        left(n) == r.hours_remaining - BlockHours(SubSeq(blocks, 1, n - 1))
        before(d1, s1, d2, s2) == d1 < d2 \/ (d1 = d2 /\ s1 < s2)
    IN  /\ \A n \in DOMAIN blocks :
              /\ left(n) > 0
              /\ blocks[n].d >= r.carry_to
              /\ ~OffSeen(k, id, blocks[n].d)
              /\ \E x \in ShiftRowsSeen(k, id, blocks[n].d) :
                    /\ _hhmm_to_dt(x[1]) = blocks[n].s
                    /\ blocks[n].e - blocks[n].s = Min(left(n), cap_hours(x[1], x[2]))
              /\ \A d \in r.carry_to..blocks[n].d : \A x \in ShiftRowsSeen(k, id, d) :
                    (/\ cap_hours(x[1], x[2]) > 0
                     /\ before(d, _hhmm_to_dt(x[1]), blocks[n].d, blocks[n].s))
                    => \E m \in 1..(n - 1) :
                          blocks[m].d = d /\ blocks[m].s = _hhmm_to_dt(x[1])
        /\ \A n \in 1..(Len(blocks) - 1) :
              ~before(blocks[n + 1].d, blocks[n + 1].s, blocks[n].d, blocks[n].s)
        /\ LedgerAfter(k)[id].consumed = 1

\* C8 as stated: every row a call allocates gets the greedy allocation over the
\* segments in chronological order, whatever the shift table holds.
C8_GreedyChronological ==
    \A k \in DOMAIN p_hist : \A id \in p_hist[k].marked : GreedyChronological(k, id)

\* A shift time written "HH:MM" with two digits for the hour.
IsHHMM(t) ==
    /\ Len(t) = 5 /\ t[3] = ":"
    /\ IsInt(<<t[1], t[2]>>) /\ IsInt(<<t[4], t[5]>>)
\* Every shift time call k read for ledger row id is written that way.
PaddedSeen(k, id) ==
    \A n \in DOMAIN SeenFor(k, id) : \A m \in DOMAIN SeenFor(k, id)[n].shifts :
        IsHHMM(SeenFor(k, id)[n].shifts[m][1]) /\ IsHHMM(SeenFor(k, id)[n].shifts[m][2])

\* The same when every shift time the call reads is written "HH:MM" with two
\* digits for the hour.
C8_GreedyWhenPadded ==
    \A k \in DOMAIN p_hist : \A id \in p_hist[k].marked :
        PaddedSeen(k, id) => GreedyChronological(k, id)

\* The example of the claim: 5 hours over Monday's shifts 08:00-12:00 and
\* 13:00-16:00 give the blocks 08:00-12:00 and 13:00-14:00, and the row is
\* consumed.
C8_Witness ==
    \E k \in DOMAIN p_hist : \E id \in p_hist[k].marked :
        /\ PaddedSeen(k, id)
        /\ p_hist[k].before[id].hours_remaining = MaxHours
        /\ p_hist[k].blocks[id] =
              << [id |-> id, employee |-> EmpAnn, d |-> 0, s |-> 8, e |-> 12],
                 [id |-> id, employee |-> EmpAnn, d |-> 0, s |-> 13, e |-> 14] >>
        /\ LedgerAfter(k)[id].consumed = 1

\* C21: the only persistent effect of a call on the ledger is the consumed
\* flag.  After every call the table holds the same rows as before it, every
\* row has its employee, hours_remaining, carry_to and id as they were written,
\* a flag that differs went from 0 to 1, and a row the query did not select is
\* exactly as it was.
C21_OnlyConsumedFlag ==
    \A k \in DOMAIN p_hist :
        LET before == p_hist[k].before
            after  == LedgerAfter(k)
        IN  /\ DOMAIN after = DOMAIN before
            /\ \A id \in DOMAIN before :
                  /\ [after[id] EXCEPT !.consumed = before[id].consumed] = before[id]
                  /\ after[id].consumed # before[id].consumed =>
                        /\ before[id].consumed = 0 /\ after[id].consumed = 1
                        /\ id \in p_hist[k].selected
                  /\ id \notin p_hist[k].selected => after[id] = before[id]

\* A call marked a row with hours left while the table held another row with
\* hours left that the query did not select.
C21_Witness ==
    /\ Len(p_hist) >= 1
    /\ \E id, other \in DOMAIN p_hist[1].before :
          /\ id \in p_hist[1].marked
          /\ p_hist[1].blocks[id] # <<>>
          /\ LedgerAfter(1)[id].consumed = 1
          /\ other \notin p_hist[1].selected
          /\ p_hist[1].before[other].hours_remaining > 0

\* Two blocks share more than an instant of the same date.
BlocksOverlap(a, b) == a.d = b.d /\ a.s < b.e /\ b.s < a.e

\* C28: the blocks one call injects for two different ledger rows of the same
\* employee never overlap in time.  Stated for shift times written "HH:MM".
C28_BlocksOfTwoEntriesDisjoint ==
    \A k \in DOMAIN p_hist : \A id1, id2 \in DOMAIN p_hist[k].before :
        (/\ PaddedSeen(k, id1) /\ PaddedSeen(k, id2) /\ id1 # id2
         /\ p_hist[k].before[id1].employee = p_hist[k].before[id2].employee) =>
            \A m \in DOMAIN p_hist[k].blocks[id1] : \A n \in DOMAIN p_hist[k].blocks[id2] :
                ~BlocksOverlap(p_hist[k].blocks[id1][m], p_hist[k].blocks[id2][n])

\* The shifts with capacity that call k read for a date of ledger row id do
\* not overlap one another.
ShiftsDisjoint(k, id) ==
    \A n \in DOMAIN SeenFor(k, id) : \A i, j \in DOMAIN SeenFor(k, id)[n].shifts :
        LET a == SeenFor(k, id)[n].shifts[i]
            b == SeenFor(k, id)[n].shifts[j]
        IN  (i # j /\ cap_hours(a[1], a[2]) > 0 /\ cap_hours(b[1], b[2]) > 0) =>
                \/ _hhmm_to_dt(a[2]) <= _hhmm_to_dt(b[1])
                \/ _hhmm_to_dt(b[2]) <= _hhmm_to_dt(a[1])

\* C28 within one ledger row: when the shifts read for a date do not overlap,
\* the blocks a call injects for one row do not overlap one another, so the
\* time they block is the sum of their hours.
C28_BlocksOfOneEntryDisjoint ==
    \A k \in DOMAIN p_hist : \A id \in DOMAIN p_hist[k].before :
        ShiftsDisjoint(k, id) =>
            \A m, n \in DOMAIN p_hist[k].blocks[id] :
                m # n => ~BlocksOverlap(p_hist[k].blocks[id][m], p_hist[k].blocks[id][n])

\* A call injected blocks for two rows of the same employee, one of them with
\* blocks in two shifts.
C28_Witness ==
    \E k \in DOMAIN p_hist : \E id1, id2 \in DOMAIN p_hist[k].before :
        /\ id1 # id2
        /\ p_hist[k].before[id1].employee = p_hist[k].before[id2].employee
        /\ Len(p_hist[k].blocks[id1]) >= 2
        /\ p_hist[k].blocks[id2] # <<>>

\* ===================================================== run_scheduler_cached
\* @st.cache_data(show_spinner=False, ttl=60) around a function without
\* arguments: one cache entry, shared by every caller, that lives 60 seconds.
\* The value of a run is kept as the number of the call that computed it, the
\* blocks that call put into cfg["special_projects"], the blocks that were in
\* the cfg given to ark.schedule_jobs (line 1380), and whether the value
\* returned is a frame with rows.
NoValue == [run |-> 0, special_projects |-> <<>>, supplied |-> <<>>, rows |-> FALSE]

\* How the body ends after the propagation (lines 1364-1394).  "early": it
\* returns an empty frame because the jobs table is empty (lines 1368-1370), or
\* None because reading the jobs or the catalog raises (line 1394), before
\* ark.schedule_jobs is called.  "no rows": ark.schedule_jobs(cfg, ..) is called
\* with the blocks in cfg, and raises or returns an empty frame.  "rows": it is
\* called and a frame with rows is returned.
Outcomes == {"early", "no rows", "rows"}
Supplied(blocks, outcome) ==
    IF outcome = "early" THEN [k \in DOMAIN blocks |-> <<>>] ELSE blocks

\* The cache never answering.
CacheHitNever(cache) == FALSE

\* st.cache_data: the stored value answers while the entry is live
CacheHit(cache) == cache.live

RunsIn(log) == Len(SelectSeq(log, LAMBDA x : x.kind \in {"fresh", "cached"}))
WritesIn(log) == Len(SelectSeq(log, LAMBDA x : x.kind = "write"))

\* ---- inputs
\* Rows the feedback source writes: of "ann" one hour resuming on day 0, and
\* one row of "zed", who is not in the employees table.
WriteChoices ==
    {[employee |-> EmpAnn, hours_remaining |-> 1, carry_to |-> 0],
     [employee |-> EmpZed, hours_remaining |-> 1, carry_to |-> 1]}
\* Rows in the table as the scenarios start: those, and of "ann" more hours
\* than the window holds resuming on day 1.
StartChoices ==
    WriteChoices \cup {[employee |-> EmpAnn, hours_remaining |-> MaxHours, carry_to |-> 1]}
NewEntry(ledger, w) ==
    [id |-> Len(ledger) + 1, employee |-> w.employee,
     hours_remaining |-> w.hours_remaining, carry_to |-> w.carry_to, consumed |-> 0,
     numeric |-> TRUE]
RunLedgers ==
    {<<>>} \cup {<<NewEntry(<<>>, w)>> : w \in StartChoices}

\* Lines 801-804: percent_complete brought into 0..100
Sanitize(pc) == IF pc < 0 THEN 0 ELSE IF pc > 100 THEN 100 ELSE pc

\* The form of one task of "ann": as the editor shows it (Not Done unticked,
\* Percent Complete 100), or Not Done ticked and Percent Complete set to 50.
FormChoices ==
    {[employee |-> EmpAnn, not_done |-> FALSE, percent_complete |-> 100],
     [employee |-> EmpAnn, not_done |-> TRUE, percent_complete |-> 50]}
\* The editor: one row per task of the employee today, 1 to n rows.
Editors(n) == UNION {[1..m -> FormChoices] : m \in 1..n}

\* The row inserted into task_feedback for a row of the form.
FeedbackRow(form) ==
    [employee |-> form.employee,
     not_done |-> IF form.not_done THEN 1 ELSE 0,
     percent_complete |-> Sanitize(form.percent_complete)]

\* emp_name of a page whose account has no employee record (line 715).
None == "None"

\* ---- actions
InitRun ==
    /\ p_ledger \in RunLedgers
    /\ p_shifts = ShiftsPadded
    /\ p_days_off = {}
    /\ p_employees = KnownEmployees
    /\ p_window \in Windows
    /\ p_calls = 0
    /\ p_hist = <<>>
    /\ p_call = NoCall
    /\ p_admin = 0
    /\ RunIdle
    /\ PipeIdle
    /\ ConsIdle
    /\ BatchIdle

\* An entry of the log.  A call of run_scheduler_cached is entered when it
\* returns: before is task_carryovers as the call found it (at the SELECT of
\* line 1237 when the body ran), after as it was when the call returned;
\* window, names and seen are what the queries of the body returned.
LogEntry(kind, live, value, marked, id, before, after) ==
    [kind |-> kind, live |-> live, value |-> value, marked |-> marked, id |-> id,
     before |-> before, after |-> after,
     window |-> <<0, 0>>, names |-> {}, seen |-> <<>>]

\* What the caller does with the value once the call has returned, log being
\* the log with the call entered.
\*   line 740, "Today's Tasks": the editor and the button exist when the page
\*   has an employee (its emp_name of line 715) and the value is a frame with
\*   rows (line 741) that has the columns (line 749) and tasks of the employee
\*   today (line 756); with the button pressed the rows of the editor are then
\*   to be inserted; otherwise the page goes on to the next tab;
\*   line 825, "My Schedule", and line 844, "Master Schedule": the page goes on;
\*   line 1397 and the pages of other sessions: nothing more.
Returned(caller, value, log) ==
    IF caller = "740"
    THEN \/ /\ r_log' = log
            /\ r_form' = <<>>
            /\ e_pc' = "825"
         \/ /\ emp_name # None
            /\ value.rows
            /\ \E edited \in Editors(Min(MaxFeedback - Len(r_feedback),
                                         MaxLog - Len(log) - 1 - p_admin)) :
                 /\ r_log' = Append(log, LogEntry("submit", TRUE, NoValue, {},
                                                  Len(edited), p_ledger, p_ledger))
                 /\ r_form' = [k \in DOMAIN edited |-> FeedbackRow(edited[k])]
                 /\ e_pc' = "form"
    ELSE /\ r_log' = log
         /\ r_form' = r_form
         /\ e_pc' = IF caller = "825" THEN "844"
                    ELSE IF caller = "844" THEN "idle" ELSE e_pc

\* A caller reaches run_scheduler_cached().  While the cache entry is live the
\* stored value is returned and the body does not run.  Otherwise the body
\* runs, for one caller at a time (st.cache_data computes a missing entry
\* under a lock, and a caller that waited finds the entry stored): it reads
\* global_settings (line 1295) and the tables cfg is built from, and calls
\* inject_carryovers_into_cfg with the window of cfg (lines 1355-1359).
Call(caller) ==
    IF CacheHit(r_cache)
    THEN /\ Returned(caller, r_cache.value,
                     Append(r_log, LogEntry("cached", r_cache.live, r_cache.value,
                                            {}, 0, p_ledger, p_ledger)))
         /\ UNCHANGED <<r_cache, r_caller, r_feedback, emp_name, propVars>>
         /\ UNCHANGED <<consVars, batchVars, pipeVars>>
    ELSE /\ r_caller = "none"
         /\ r_caller' = caller
         /\ p_call' = [NoCall EXCEPT !.pc = "select", !.window = p_window]
         /\ UNCHANGED <<r_cache, r_log, r_feedback, r_form, e_pc, emp_name>>
         /\ UNCHANGED <<p_ledger, p_shifts, p_days_off, p_employees, p_window, p_calls,
                        p_hist, p_admin>>
         /\ UNCHANGED <<consVars, batchVars, pipeVars>>

\* Lines 1360-1394: inject_carryovers_into_cfg has returned or raised (the
\* exception is passed over, line 1360); the body computes the schedule from
\* cfg, the value is stored in the cache and returned to the caller.
run_end ==
    /\ r_caller # "none"
    /\ p_call.pc = "done"
    /\ \E outcome \in Outcomes :
         LET value == [run |-> RunsIn(r_log) + 1,
                       special_projects |-> p_call.special_projects,
                       supplied |-> Supplied(p_call.special_projects, outcome),
                       rows |-> outcome = "rows"]
             entry == [LogEntry("fresh", r_cache.live, value, p_call.marked, 0,
                                p_call.before, p_ledger)
                          EXCEPT !.window = p_call.window,
                                 !.names = DOMAIN p_call.name_to_id,
                                 !.seen = p_call.seen]
         IN  /\ r_cache' = [live |-> TRUE, value |-> value]
             /\ Returned(r_caller, value, Append(r_log, entry))
    /\ r_caller' = "none"
    /\ p_call' = NoCall
    /\ UNCHANGED <<r_feedback, emp_name>>
    /\ UNCHANGED <<p_ledger, p_shifts, p_days_off, p_employees, p_window, p_calls,
                   p_hist, p_admin>>
    /\ UNCHANGED <<consVars, batchVars, pipeVars>>

\* The statements of the body between the call and its return.
run_body ==
    \/ inject_select
    \/ inject_names
    \/ inject_day_off
    \/ inject_shifts
    \/ inject_mark
    \/ run_end

\* A page of any session calls run_scheduler_cached().
run_scheduler_cached ==
    /\ RunsIn(r_log) + InFlight < MaxRuns
    /\ Room >= 1
    /\ Call("show")

\* ttl=60: sixty seconds after it was stored the entry stops answering.
CacheExpire ==
    /\ r_cache.live
    /\ r_cache' = [r_cache EXCEPT !.live = FALSE]
    /\ UNCHANGED <<r_log, r_feedback, r_form, r_caller, e_pc, emp_name>>
    /\ UNCHANGED <<propVars, consVars, batchVars, pipeVars>>

\* The feedback source adds a row to task_carryovers (consumed DEFAULT 0).
WriteCarryover ==
    /\ WritesIn(r_log) < MaxWrites
    /\ Room >= 1
    /\ \E w \in WriteChoices :
         LET after == Append(p_ledger, NewEntry(p_ledger, w))
         IN  /\ p_ledger' = after
             /\ r_log' = Append(r_log, LogEntry("write", r_cache.live, NoValue, {},
                                                Len(after), p_ledger, after))
    /\ UNCHANGED <<r_cache, r_feedback, r_form, r_caller, e_pc, emp_name>>
    /\ UNCHANGED <<p_shifts, p_days_off, p_employees, p_window, p_calls, p_hist,
                   p_call, p_admin>>
    /\ UNCHANGED <<consVars, batchVars, pipeVars>>

\* Schedule pages of any session, the body of run_scheduler_cached, the expiry
\* of the cache, the feedback source, and the admin deleting the employee.
NextRun ==
    \/ run_scheduler_cached
    \/ run_body
    \/ CacheExpire
    \/ WriteCarryover
    \/ DeleteEmployee

SpecRun == InitRun /\ [][NextRun]_vars

\* --------------------------------------------------------- run: properties
\* C11: the consumed flag of a ledger row only ever goes from 0 to 1: whatever
\* step is taken (a call of run_scheduler_cached, a statement of its body, the
\* expiry of the cache, a new ledger row, a form of the admin), every row is
\* still in the table afterwards, a consumed row is still consumed, and a row
\* that changes its flag changes it from 0 to 1.
C11_ConsumedMonotone ==
    [][\A k \in DOMAIN p_ledger :
          /\ k \in DOMAIN p_ledger'
          /\ p_ledger[k].consumed = 1 => p_ledger'[k].consumed = 1
          /\ p_ledger'[k].consumed # p_ledger[k].consumed
                => p_ledger[k].consumed = 0 /\ p_ledger'[k].consumed = 1]_vars

\* A row was consumed by a fresh run, and afterwards another row was written
\* and another fresh run marked that one.
C11_Witness ==
    \E a, b \in DOMAIN r_log :
        /\ a < b
        /\ r_log[a].kind = "fresh" /\ r_log[a].marked # {}
        /\ r_log[b].kind = "fresh" /\ r_log[b].marked # {}
        /\ \E w \in DOMAIN r_log : a < w /\ w < b /\ r_log[w].kind = "write"
        /\ \A k \in r_log[a].marked : p_ledger[k].consumed = 1

\* The blocks of ledger row id in the value of run record n.
BlocksIn(n, id) ==
    IF id \in DOMAIN r_log[n].value.special_projects
    THEN r_log[n].value.special_projects[id] ELSE <<>>
IsRun(n) == r_log[n].kind \in {"fresh", "cached"}

\* Lines 1257-1283 over the days off and the shifts a run read for a row: the
\* blocks of the dates it asked about, in the order of the dates.
RECURSIVE AllocSeen(_, _, _)
AllocSeen(r, seen, hours_remaining) ==
    IF seen = <<>> THEN <<>>
    ELSE IF Head(seen).off THEN AllocSeen(r, Tail(seen), hours_remaining)
    ELSE LET a == AllocSegments(r, Head(seen).d, Head(seen).shifts, hours_remaining)
         IN  a.blocks \o AllocSeen(r, Tail(seen), a.left)

\* C20: cache snapshot semantics.  A call made while the cached result is live
\* returns the value of the last fresh run and leaves the ledger as it is.  A
\* ledger row written while the cache is live is in no value returned before
\* the next fresh run; that run, the first after the cache has expired, injects
\* and consumes it (a row with hours left that resumes within the window the
\* run read, of an employee the run found in the table; the blocks are those
\* of the shifts the run read), and once a run has marked it no later run
\* injects or marks it again.
C20_CacheSnapshot ==
    /\ \A n \in DOMAIN r_log :
          (IsRun(n) /\ r_log[n].live) =>
              /\ r_log[n].kind = "cached"
              /\ r_log[n].after = r_log[n].before
              /\ r_log[n].marked = {}
              /\ \E f \in 1..(n - 1) :
                    /\ r_log[f].kind = "fresh"
                    /\ \A g \in (f + 1)..(n - 1) : r_log[g].kind # "fresh"
                    /\ r_log[n].value = r_log[f].value
    /\ \A n \in DOMAIN r_log : (IsRun(n) /\ ~r_log[n].live) => r_log[n].kind = "fresh"
    /\ \A w \in DOMAIN r_log :
          (r_log[w].kind = "write" /\ r_log[w].live) =>
              LET id    == r_log[w].id
                  r     == r_log[w].after[id]
                  fresh == {n \in DOMAIN r_log : n > w /\ r_log[n].kind = "fresh"}
              IN  /\ \A n \in DOMAIN r_log :
                        (n > w /\ IsRun(n) /\ \A f \in fresh : n < f) =>
                            /\ r_log[n].kind = "cached"
                            /\ BlocksIn(n, id) = <<>>
                            /\ r_log[n].after[id].consumed = 0
                  /\ \A f \in fresh :
                        /\ (\A g \in fresh : f <= g) =>
                              /\ id \in DOMAIN r_log[f].before
                              /\ (/\ InWindow(r, r_log[f].window)
                                  /\ r.employee \in r_log[f].names
                                  /\ r.hours_remaining > 0) =>
                                    /\ id \in r_log[f].marked
                                    /\ r_log[f].after[id].consumed = 1
                                    /\ r_log[f].seen[id] # <<>>
                                    /\ r_log[f].seen[id][1].d = r.carry_to
                                    /\ BlocksIn(f, id) =
                                          AllocSeen(r, r_log[f].seen[id], r.hours_remaining)
                        /\ id \in r_log[f].marked =>
                              \A g \in fresh :
                                  g > f => /\ id \notin r_log[g].marked
                                           /\ BlocksIn(g, id) = <<>>

\* A row was written while the cache was live; a call answered by the cache
\* did not show it; the first fresh run after the expiry injected blocks for it
\* and consumed it; a second fresh run injected nothing for it.
C20_Witness ==
    \E w, c, f, g \in DOMAIN r_log :
        /\ w < c /\ c < f /\ f < g
        /\ r_log[w].kind = "write" /\ r_log[w].live
        /\ r_log[c].kind = "cached"
        /\ r_log[f].kind = "fresh" /\ r_log[g].kind = "fresh"
        /\ BlocksIn(f, r_log[w].id) # <<>>
        /\ r_log[w].id \in r_log[f].marked
        /\ BlocksIn(g, r_log[w].id) = <<>>

\* The blocks of ledger row id that run record n gave to the Base Scheduler.
SuppliedIn(n, id) ==
    IF id \in DOMAIN r_log[n].value.supplied
    THEN r_log[n].value.supplied[id] ELSE <<>>
FreshRuns == {n \in DOMAIN r_log : r_log[n].kind = "fresh"}

\* C29 as stated: the blocks derived from a ledger row are supplied to the Base
\* Scheduler in exactly one fresh run, the run that marks the row consumed.
C29_SuppliedInExactlyOneRun ==
    \A m \in FreshRuns : \A id \in r_log[m].marked :
        BlocksIn(m, id) # <<>> =>
            /\ SuppliedIn(m, id) = BlocksIn(m, id)
            /\ Cardinality({n \in FreshRuns : SuppliedIn(n, id) # <<>>}) = 1

\* C29, the part that holds: the blocks derived from a ledger row are supplied
\* to the Base Scheduler in at most one fresh run.  A run that supplies blocks
\* of a row is the run that derived them and marked the row; a run that marks a
\* row found it unconsumed and leaves it consumed, whether or not it reached
\* the Base Scheduler; every later fresh run neither derives, supplies nor
\* marks anything for the row.
C29_SuppliedAtMostOnce ==
    \A n \in FreshRuns : \A id \in DOMAIN r_log[n].after :
        /\ SuppliedIn(n, id) # <<>> =>
              /\ id \in r_log[n].marked
              /\ SuppliedIn(n, id) = BlocksIn(n, id)
        /\ BlocksIn(n, id) # <<>> => id \in r_log[n].marked
        /\ id \in r_log[n].marked =>
              /\ r_log[n].before[id].consumed = 0
              /\ r_log[n].after[id].consumed = 1
              /\ p_ledger[id].consumed = 1
              /\ \A g \in FreshRuns :
                    g > n => /\ id \notin r_log[g].marked
                             /\ BlocksIn(g, id) = <<>>
                             /\ SuppliedIn(g, id) = <<>>
        /\ Cardinality({g \in FreshRuns : SuppliedIn(g, id) # <<>>}) <= 1

\* A fresh run derived blocks for a row and marked it, and returned before the
\* Base Scheduler was called; a later fresh run reached the Base Scheduler
\* with nothing for the row, which is consumed.
C29_Witness ==
    \E m, g \in FreshRuns :
        /\ m < g
        /\ \E id \in r_log[m].marked :
              /\ BlocksIn(m, id) # <<>>
              /\ SuppliedIn(m, id) = <<>>
              /\ SuppliedIn(g, id) = <<>>
              /\ p_ledger[id].consumed = 1
        /\ \E k \in r_log[g].marked : SuppliedIn(g, k) # <<>>

\* ========================================================== employee_app
\* Lines 710-850: one run of the page of "ann", with the button "Submit daily
\* updates" pressed or not.  The page reads the employee of the account (line
\* 715), calls run_scheduler_cached() for today's tasks (line 740), inserts one
\* row into task_feedback for every row of the editor when the button was
\* pressed (lines 798-819), each INSERT in a connection and a commit of its
\* own, and calls run_scheduler_cached() again for the tab "My Schedule" (line
\* 825) and for the tab "Master Schedule" (line 844).  e_pc is the statement
\* the page is at.

\* Line 715: the page starts and reads the employee record of the account.
employee_app ==
    /\ e_pc = "idle"
    /\ Room >= 1
    /\ RunsIn(r_log) + InFlight < MaxRuns
    /\ e_pc' = "740"
    /\ emp_name' = IF EmpAnn \in p_employees THEN EmpAnn ELSE None
    /\ UNCHANGED <<r_cache, r_log, r_feedback, r_form, r_caller>>
    /\ UNCHANGED <<propVars, consVars, batchVars, pipeVars>>

\* Lines 740-797: the call for "Today's Tasks"; when it returns, the rows of
\* the editor of a page whose button was pressed are still to be inserted.
SubmitDailyUpdates ==
    /\ e_pc = "740"
    /\ Call("740")

\* Lines 798-819: one iteration of the loop, one INSERT INTO task_feedback.
InsertFeedback ==
    /\ e_pc = "form"
    /\ r_form # <<>>
    /\ r_feedback' = Append(r_feedback, Head(r_form))
    /\ r_form' = Tail(r_form)
    /\ e_pc' = IF Tail(r_form) = <<>> THEN "825" ELSE "form"
    /\ r_log' = Append(r_log, LogEntry("feedback", r_cache.live, NoValue, {},
                                       Len(r_feedback) + 1, p_ledger, p_ledger))
    /\ UNCHANGED <<r_cache, r_caller, emp_name>>
    /\ UNCHANGED <<propVars, consVars, batchVars, pipeVars>>

\* Line 825: the call for "My Schedule".
MySchedule ==
    /\ e_pc = "825"
    /\ Room >= 1
    /\ RunsIn(r_log) + InFlight < MaxRuns
    /\ Call("825")

\* Line 844: the call for "Master Schedule".
MasterSchedule ==
    /\ e_pc = "844"
    /\ Room >= 1
    /\ RunsIn(r_log) + InFlight < MaxRuns
    /\ Call("844")

\* Line 1397 and the pages of the other sessions that show the schedule: a call
\* of run_scheduler_cached() and nothing more.
ShowSchedule == run_scheduler_cached

\* The program as src/ has it: schedule pages of any session, the body of
\* run_scheduler_cached, the expiry of the cache, the page of the employee and
\* the admin's forms.
NextFeedback ==
    \/ ShowSchedule
    \/ run_body
    \/ CacheExpire
    \/ employee_app
    \/ SubmitDailyUpdates
    \/ InsertFeedback
    \/ MySchedule
    \/ MasterSchedule
    \/ admin_app

\* task_carryovers empty or with one row of "ann", one hour resuming on day 0.
InitFeedback ==
    /\ p_ledger \in {<<>>, <<NewEntry(<<>>, [employee |-> EmpAnn, hours_remaining |-> 1,
                                             carry_to |-> 0])>>}
    /\ p_shifts = ShiftsPadded
    /\ p_days_off = {}
    /\ p_employees = KnownEmployees
    /\ p_window = <<0, MaxDay>>
    /\ p_calls = 0
    /\ p_hist = <<>>
    /\ p_call = NoCall
    /\ p_admin = 0
    /\ RunIdle
    /\ PipeIdle
    /\ ConsIdle
    /\ BatchIdle

SpecFeedback == InitFeedback /\ [][NextFeedback]_vars

\* The sum of the id fields of a sequence of log entries.
RECURSIVE SumIds(_)
SumIds(entries) == IF entries = <<>> THEN 0 ELSE Head(entries).id + SumIds(Tail(entries))

\* The first fresh run recorded after log entry f.
NextFreshAfter(f, n) ==
    /\ n > f /\ r_log[n].kind = "fresh"
    /\ \A g \in (f + 1)..(n - 1) : r_log[g].kind # "fresh"

\* C23: a task submitted as Not Done with less than 100 percent complete is
\* applied when the next schedule is generated: the first fresh run after the
\* submission finds a ledger row of that employee that was not in the table
\* before the submission.
C23_FeedbackAppliedByNextRun ==
    \A f \in DOMAIN r_log :
        (/\ r_log[f].kind = "feedback"
         /\ r_feedback[r_log[f].id].not_done = 1
         /\ r_feedback[r_log[f].id].percent_complete < 100) =>
            \A n \in DOMAIN r_log :
                NextFreshAfter(f, n) =>
                    \E id \in DOMAIN r_log[n].after :
                        /\ id \notin DOMAIN r_log[f].before
                        /\ r_log[n].after[id].employee = r_feedback[r_log[f].id].employee

\* The rows inserted into task_feedback, as the log has them.
InsertsIn(log) == Len(SelectSeq(log, LAMBDA x : x.kind = "feedback"))

\* C23, what the form does: a submission is accepted only from a page whose
\* schedule call returned a frame with rows; every row of the editor is stored
\* in task_feedback as it was filled in; an insert leaves task_carryovers as it
\* is, and no row is ever added to task_carryovers: every fresh run, whoever
\* makes it and whatever the admin has changed, allocates only rows that were
\* in the table from the start.
C23_FeedbackStoredOnly ==
    /\ Len(r_feedback) = InsertsIn(r_log)
    /\ \A b \in DOMAIN r_log :
          r_log[b].kind = "submit" =>
              /\ b > 1 /\ IsRun(b - 1) /\ r_log[b - 1].value.rows
              /\ r_log[b].before = r_log[b - 1].after
              /\ r_log[b].after = r_log[b].before
    /\ \A f \in DOMAIN r_log :
          r_log[f].kind = "feedback" =>
              /\ r_log[f].id \in DOMAIN r_feedback
              /\ r_feedback[r_log[f].id] \in {FeedbackRow(x) : x \in FormChoices}
              /\ r_log[f].after = r_log[f].before
              /\ \E b \in 1..(f - 1) : r_log[b].kind = "submit"
    /\ InsertsIn(r_log) + Len(r_form) =
          SumIds(SelectSeq(r_log, LAMBDA x : x.kind = "submit"))
    /\ \A n \in DOMAIN r_log :
          /\ DOMAIN r_log[n].before = DOMAIN p_ledger
          /\ DOMAIN r_log[n].after = DOMAIN p_ledger
          /\ IsRun(n) => DOMAIN r_log[n].value.special_projects \subseteq DOMAIN p_ledger

\* Two tasks were submitted from a page whose call of line 740 ran the body;
\* the first was inserted as Not Done at 50 percent, another session then made
\* a fresh run, and the second was inserted after that run.
C23_Witness ==
    \E b, f, g, n \in DOMAIN r_log :
        /\ b < f /\ n < g
        /\ r_log[b].kind = "submit" /\ r_log[b - 1].kind = "fresh"
        /\ r_log[f].kind = "feedback" /\ r_log[g].kind = "feedback"
        /\ r_feedback[r_log[f].id].not_done = 1
        /\ r_feedback[r_log[f].id].percent_complete = 50
        /\ NextFreshAfter(f, n)

\* ============================ run_scheduler_cached: the two refinement stages
\* Lines 1380-1392: df = ark.schedule_jobs(..); each stage is called inside
\* try/except Exception: pass, so df keeps its value when the stage raises.

\* df emptied when a stage raises.
AfterExceptionEmpty(df) == <<>>

\* except Exception: pass -- the assignment df = stage(df, cfg) did not happen
AfterException(df) == df

\* ---- inputs
\* Base schedules of one employee and one day: up to MaxPipeRows rows of
\* customer "Al" in stages "P2" and "S" and of customer "Bo" in stage "P2",
\* without double-booking.
ValidFrames ==
    ScheduleFrames(RowChoices({Al}, {P2, Sand}, DayStart..(DayStart + MaxPipeTime))
                       \cup RowChoices({Bo}, {P2}, DayStart..(DayStart + MaxPipeTime)),
                   MaxPipeRows)
\* Rows of customer "Bo" without a start, without an end, and without both.
MissingRows ==
    {[emp |-> EmpAnn, cust |-> Bo, job |-> Chair, service |-> Refinish, item |-> NoItem, stage |-> P2,
      s |-> iv[1], e |-> iv[2], hours |-> NaT] :
        iv \in {<<NaT, DayStart + 1>>, <<DayStart, NaT>>, <<NaT, NaT>>}}
\* Frames with one such row: alone, before or behind a row of customer "Al".
MissingFrames ==
    {Labelled(<<x>>) : x \in MissingRows}
    \cup {Labelled(f) : f \in UNION {{<<x, r>>, <<r, x>>} :
              x \in MissingRows,
              r \in RowChoices({Al}, {P2, Sand}, DayStart..(DayStart + MaxPipeTime))}}
PipeFrames == ValidFrames \cup MissingFrames

\* The columns of the base schedule; those the Consolidator asks for (lines
\* 914-916) and those the Batcher asks for (lines 1128-1129).
FrameColumns ==
    {"Assigned To", "Start", "End", "Hours", "Customer", "Job", "Service", "Stage"}
ConsRequired == {"Assigned To", "Start", "End", "Customer", "Job", "Service", "Stage"}
BatchRequired == {"Assigned To", "Start", "End", "Stage"}
\* Frames with every column, without Customer, Job and Service, without Job,
\* without Stage, and without Start.
PipeColumnSets ==
    {FrameColumns, FrameColumns \ {"Customer", "Job", "Service"}, FrameColumns \ {"Job"},
     FrameColumns \ {"Stage"}, FrameColumns \ {"Start"}}
\* The rows of a frame with these columns: r.get(c, "") is the empty text for
\* a column the frame does not have.
Project(f, columns) ==
    [k \in DOMAIN f |->
        [f[k] EXCEPT !.cust = IF "Customer" \in columns THEN @ ELSE <<>>,
                     !.job = IF "Job" \in columns THEN @ ELSE <<>>,
                     !.service = IF "Service" \in columns THEN @ ELSE <<>>]]

\* priorities_targets: no row, or one row for " bo" / "p2 " by the day of the
\* schedule's rows or by the day after.
PipeTargetSets ==
    {{}} \cup {{[customer |-> BoAsTarget, stage |-> P2AsTarget, by |-> Midnight(d)]} :
                  d \in TargetDays}

\* The shift rows of the Consolidator's inputs, and one shift that spans the
\* hours of the base schedule, 08:00 to the last hour enumerated.
PipeShiftChoices ==
    ShiftChoices \cup {<< <<Padded(DayStart), Padded(DayStart + MaxPipeTime)>> >>}

\* cfg (lines 1306-1334): the shifts and days_off of the employee and the
\* targets; the date of the rows is a day off only in some cfg without targets.
PipeCfgs ==
    [shifts : PipeShiftChoices, targets : PipeTargetSets, day_off : {FALSE}]
    \cup [shifts : ShiftChoices, targets : {{}}, day_off : {TRUE}]

\* ---- actions
InitPipe ==
    /\ s_pc = "scheduled"
    /\ s_columns \in PipeColumnSets
    /\ s_cfg \in PipeCfgs
    /\ s_df \in {Project(f, s_columns) : f \in PipeFrames}
    /\ s_log = <<>>
    /\ ConsIdle
    /\ BatchIdle
    /\ PropIdle
    /\ RunIdle

StageEntry(stage, outcome, output) ==
    [stage |-> stage, outcome |-> outcome, input |-> s_df, output |-> output]

\* Line 1383: enforce_non_preemptive_finish_started(df, cfg) is entered.
PipeCallConsolidator ==
    /\ s_pc = "scheduled"
    /\ ConsRequired \subseteq s_columns
    /\ c_pc' = "start"
    /\ c_df' = s_df
    /\ c_shifts' = s_cfg.shifts
    /\ c_targets' = s_cfg.targets
    /\ s_pc' = "consolidating"
    /\ UNCHANGED <<c_segments, c_seg, c_pending, c_cursor, c_used, c_i, c_out_rows,
                   c_out, c_hist>>
    /\ UNCHANGED <<s_columns, s_cfg, s_df, s_log>>
    /\ UNCHANGED <<batchVars, propVars, runVars>>

\* Lines 914-916: a frame without the expected columns is returned as it is.
PipeConsolidatorAsIs ==
    /\ s_pc = "scheduled"
    /\ ~(ConsRequired \subseteq s_columns)
    /\ s_log' = Append(s_log, StageEntry("Consolidator", "as-is", s_df))
    /\ s_pc' = "consolidated"
    /\ UNCHANGED <<s_columns, s_cfg, s_df>>
    /\ UNCHANGED <<consVars, batchVars, propVars, runVars>>

\* Line 1383: the function has returned; df = its result.
PipeConsolidatorReturns ==
    /\ s_pc = "consolidating"
    /\ c_pc = "done"
    /\ s_df' = c_out
    /\ s_log' = Append(s_log, StageEntry("Consolidator", "returned", c_out))
    /\ s_pc' = "consolidated"
    /\ UNCHANGED <<s_columns, s_cfg>>
    /\ UNCHANGED <<consVars, batchVars, propVars, runVars>>

\* Lines 1384-1385: an exception leaves the function, at whatever point it had
\* reached, and is swallowed.
PipeConsolidatorRaises ==
    /\ s_pc = "consolidating"
    /\ c_pc # "done"
    /\ c_pc' = "raised"
    /\ s_df' = AfterException(s_df)
    /\ s_log' = Append(s_log, StageEntry("Consolidator", "raised", AfterException(s_df)))
    /\ s_pc' = "consolidated"
    /\ UNCHANGED <<c_df, c_shifts, c_targets, c_segments, c_seg, c_pending, c_cursor,
                   c_used, c_i, c_out_rows, c_out, c_hist>>
    /\ UNCHANGED <<s_columns, s_cfg>>
    /\ UNCHANGED <<batchVars, propVars, runVars>>

\* Line 1388: batch_like_tasks(df, cfg) is entered.
PipeCallBatcher ==
    /\ s_pc = "consolidated"
    /\ BatchRequired \subseteq s_columns
    /\ b_pc' = "start"
    /\ b_df' = s_df
    /\ b_targets' = s_cfg.targets
    /\ s_pc' = "batching"
    /\ UNCHANGED <<b_reordered, b_cursor, b_k, b_out_rows, b_out, b_hist>>
    /\ UNCHANGED <<s_columns, s_cfg, s_df, s_log>>
    /\ UNCHANGED <<consVars, propVars, runVars>>

\* Lines 1128-1129: a frame without the expected columns is returned as it is;
\* line 1392: return df.
PipeBatcherAsIs ==
    /\ s_pc = "consolidated"
    /\ ~(BatchRequired \subseteq s_columns)
    /\ s_log' = Append(s_log, StageEntry("Batcher", "as-is", s_df))
    /\ s_pc' = "returned"
    /\ UNCHANGED <<s_columns, s_cfg, s_df>>
    /\ UNCHANGED <<consVars, batchVars, propVars, runVars>>

\* Line 1388: the function has returned; df = its result; line 1392: return df.
PipeBatcherReturns ==
    /\ s_pc = "batching"
    /\ b_pc = "done"
    /\ s_df' = b_out
    /\ s_log' = Append(s_log, StageEntry("Batcher", "returned", b_out))
    /\ s_pc' = "returned"
    /\ UNCHANGED <<s_columns, s_cfg>>
    /\ UNCHANGED <<consVars, batchVars, propVars, runVars>>

\* Lines 1389-1390: an exception leaves the function and is swallowed; line
\* 1392: return df.
PipeBatcherRaises ==
    /\ s_pc = "batching"
    /\ b_pc # "done"
    /\ b_pc' = "raised"
    /\ s_df' = AfterException(s_df)
    /\ s_log' = Append(s_log, StageEntry("Batcher", "raised", AfterException(s_df)))
    /\ s_pc' = "returned"
    /\ UNCHANGED <<b_df, b_targets, b_reordered, b_cursor, b_k, b_out_rows, b_out, b_hist>>
    /\ UNCHANGED <<s_columns, s_cfg>>
    /\ UNCHANGED <<consVars, propVars, runVars>>

NextPipe ==
    \/ PipeCallConsolidator
    \/ PipeConsolidatorAsIs
    \/ PipeConsolidatorReturns
    \/ PipeConsolidatorRaises
    \/ PipeCallBatcher
    \/ PipeBatcherAsIs
    \/ PipeBatcherReturns
    \/ PipeBatcherRaises
    \/ NextCons
    \/ NextBatch

SpecPipe == InitPipe /\ [][NextPipe]_vars

\* ---------------------------------------------------- stages: properties
\* C13: fail-open refinement.  A stage that raises leaves df as it was given to
\* the stage: after a failure of the Consolidator the Batcher is given the base
\* schedule, after a failure of the Batcher the run returns what the
\* Consolidator left, and in every case the run returns a schedule with rows.
C13_FailOpen ==
    /\ \A n \in DOMAIN s_log :
          s_log[n].outcome = "raised" => s_log[n].output = s_log[n].input
    /\ Len(s_log) >= 2 => s_log[2].input = s_log[1].output
    /\ s_pc = "returned" =>
          /\ Len(s_log) = 2
          /\ s_log[1].stage = "Consolidator" /\ s_log[2].stage = "Batcher"
          /\ s_df = s_log[2].output
          /\ s_df # <<>>
          /\ s_log[2].outcome = "raised" => s_df = s_log[1].output
          /\ (s_log[1].outcome = "raised" /\ s_log[2].outcome = "raised")
                => s_df = s_log[1].input

\* A run whose Consolidator raised after it had emitted a row: the Batcher was
\* given the base schedule, regrouped it, and its result was returned.
C13_Witness ==
    /\ s_pc = "returned"
    /\ s_log[1].outcome = "raised" /\ c_out_rows # <<>>
    /\ s_log[2].outcome = "returned"
    /\ s_log[2].input = s_log[1].input
    /\ s_log[2].output # s_log[2].input

\* The stage of record n, having returned, has every row of its input that
\* lacks a timestamp in its output, all fields unchanged.
PassedThrough(n) ==
    s_log[n].outcome = "returned" =>
        \A k \in DOMAIN s_log[n].input :
            ~HasTimes(s_log[n].input[k]) =>
                \E j \in DOMAIN s_log[n].output : s_log[n].output[j] = s_log[n].input[k]

\* C16: a row without a start or without an end is passed through unmodified
\* by the Consolidator and by the Batcher: it is in the output of the stage with
\* all fields unchanged.
C16_MissingTimestampPassedThrough == \A n \in DOMAIN s_log : PassedThrough(n)

\* What the Batcher does keep: a row that has a start and no end is in its
\* output with all fields unchanged.
C16_BatcherKeepsRowWithoutEnd ==
    \A n \in DOMAIN s_log :
        (s_log[n].stage = "Batcher" /\ s_log[n].outcome = "returned") =>
            \A k \in DOMAIN s_log[n].input :
                (s_log[n].input[k].s # NaT /\ s_log[n].input[k].e = NaT) =>
                    \E j \in DOMAIN s_log[n].output :
                        s_log[n].output[j] = s_log[n].input[k]

\* The Batcher was given a row with a start and no end next to a row it placed,
\* and has returned.
C16_Witness ==
    /\ Len(s_log) = 2
    /\ s_log[2].outcome = "returned"
    /\ \E k \in DOMAIN s_log[2].input :
          s_log[2].input[k].s # NaT /\ s_log[2].input[k].e = NaT
    /\ \E n \in DOMAIN b_hist : b_hist[n].kind = "move"
    /\ \E n \in DOMAIN b_hist : b_hist[n].kind = "pass"

\* C17: the Consolidator's shift segments exclude days off: on a date that is
\* among the employee's days_off no segment comes from the weekly template, so
\* the segments of the day's rows (rows with both timestamps) are those of a
\* day without template.
C17_SegmentsExcludeDaysOff ==
    (/\ s_pc = "consolidating" /\ c_pc \notin {"start", "raised"}
     /\ s_cfg.day_off
     /\ \A k \in DOMAIN c_df : HasTimes(c_df[k])) =>
        c_segments = FallbackSegments(c_df)

\* The row lies within one of the segments the Consolidator worked with.
InSomeSegment(r) ==
    \E n \in DOMAIN c_segments : c_segments[n][1] <= r.s /\ r.e <= c_segments[n][2]

\* Both stages have returned, and every row the Consolidator handed to the
\* Batcher has its timestamps and lies within a segment.
RefinedFromSegments ==
    /\ s_pc = "returned"
    /\ s_log[1].outcome = "returned" /\ s_log[2].outcome = "returned"
    /\ \A k \in DOMAIN s_log[2].input :
          HasTimes(s_log[2].input[k]) /\ InSomeSegment(s_log[2].input[k])

\* C25: the refined schedule stays inside working time: after the Batcher has
\* run on the Consolidator's output, every row lies within one shift segment of
\* the employee's day.
C25_RefinedWithinSegments ==
    RefinedFromSegments => \A k \in DOMAIN s_df : InSomeSegment(s_df[k])

\* C25, what the Batcher keeps: a row of the refined schedule that lies outside
\* every segment is a row the Batcher moved to a later start; the rows it left
\* where the Consolidator put them are inside a segment.
C25_OnlyMovedRowsLeaveSegments ==
    RefinedFromSegments =>
        \A k \in DOMAIN s_df :
            ~InSomeSegment(s_df[k]) =>
                \E n \in DOMAIN b_hist :
                    /\ b_hist[n].kind = "move"
                    /\ b_hist[n].row.id = s_df[k].id
                    /\ b_hist[n].row.s > b_hist[n].r.s
                    /\ s_df[k].s = b_hist[n].row.s /\ s_df[k].e = b_hist[n].row.e

\* The Consolidator worked with segments from the shift template and handed
\* every row on inside one; the Batcher returned a row that ends after the end
\* of the last segment.
C25_Witness ==
    /\ RefinedFromSegments
    /\ s_cfg.shifts # <<>>
    /\ \E k \in DOMAIN s_df :
          \A n \in DOMAIN c_segments : s_df[k].e > c_segments[n][2]

====
